---------------------------- MODULE Spec2Model ----------------------------
(***************************************************************************)
(* Model of the VisitaImovel dashboard front end (caiovicentino/sellsman). *)
(*                                                                         *)
(* Four specifications share this module:                                  *)
(*   Spec             the data-fetching views (one page mounted at a time) *)
(*   SpecFunnel       FunnelChart as a function of its props               *)
(*   SpecNeighborhood NeighborhoodBarChart as a function of its props      *)
(*   SpecTimeSeries   the time-series pipeline, backend to chart           *)
(* Each specification leaves the variables of the others at their idle     *)
(* values.                                                                 *)
(*                                                                         *)
(* Numbers are exact: a JavaScript number is modelled by the integer or    *)
(* the fraction it stands for, and toFixed(1) by rounding that fraction to *)
(* the nearest tenth, ties upwards.                                        *)
(***************************************************************************)
EXTENDS Integers, Sequences, FiniteSets, TLC

VARIABLES
    route,           \* the view the run follows
    an,              \* AnalyticsContent state: data, isLoading, error, period
    anReqs,          \* the fetchAnalyticsData calls made, oldest first
    bs,              \* BrokerStats state: ranking, period, loading
    bsReqs,          \* the loadRanking calls made, oldest first
    bp,              \* BrokersPage state: brokers, loading, dialog
    bpReqs,          \* the loadBrokers calls made, oldest first
    form,            \* BrokerFormDialog state: loading, error, formData
    writes,          \* the create, update and delete calls made
    ld,              \* LeadsContent state
    ldTimer,         \* the pending debounce timer of LeadsContent
    ldReqs,          \* the fetchLeads calls made, oldest first
    vs,              \* VisitsContent state: data, loading, error, status
    vsReqs,          \* the fetchVisits calls made, oldest first
    db,              \* DashboardContent state: metrics, loading, error
    dbReqs,          \* the fetchMetrics call of the mount effect
    funnelData,      \* FunnelChart props.data
    funnelLoading,   \* FunnelChart props.isLoading
    funnelView,      \* what FunnelChart rendered from them
    nbData,          \* NeighborhoodBarChart props.data
    nbLoading,       \* NeighborhoodBarChart props.isLoading
    nbView,          \* what NeighborhoodBarChart rendered from them
    tsRaw,           \* backend: the days with activity and their counts
    tsPeriod,        \* AnalyticsContent state: period
    tsInFlight,      \* periods of the fetches not yet settled, oldest first
    tsData,          \* AnalyticsContent state: data.timeSeries, and its period
    tsLoading,       \* AnalyticsContent state: isLoading
    tsError,         \* AnalyticsContent's error, "" for null
    tsView,          \* what TimeSeriesChart renders
    vdRows,          \* backend: the visits of the selected status
    vdData,          \* VisitsContent state: data, its visits as they stand
    vdLoading,       \* VisitsContent state: loading
    vdTab,           \* VisitsContent state: view
    vdRenders,       \* renders of the visits branch since the last setData
    vdShown,         \* what the list and the calendar panels hold
    srcData,         \* SourcePieChart props.data
    srcLoading,      \* SourcePieChart props.isLoading
    srcView,         \* what SourcePieChart rendered from them
    lblKind,         \* the label lookup followed
    lblKey,          \* the key the backend sent
    lblShown         \* the label rendered for it

funnelVars == <<funnelData, funnelLoading, funnelView>>
nbVars == <<nbData, nbLoading, nbView>>
tsVars == <<tsRaw, tsPeriod, tsInFlight, tsData, tsLoading, tsError, tsView>>

anVars == <<an, anReqs>>
bsVars == <<bs, bsReqs>>
bpVars == <<bp, bpReqs, form, writes>>
ldVars == <<ld, ldTimer, ldReqs>>
vsVars == <<vs, vsReqs>>
dbVars == <<db, dbReqs>>
uiVars == <<route, anVars, bsVars, bpVars, ldVars, vsVars, dbVars>>
agendaVars == <<vdRows, vdData, vdLoading, vdTab, vdRenders, vdShown>>
pieVars == <<srcData, srcLoading, srcView>>
labelVars == <<lblKind, lblKey, lblShown>>
chartVars == <<funnelVars, nbVars, tsVars, agendaVars, pieVars, labelVars>>

vars == <<route, an, anReqs, bs, bsReqs, bp, bpReqs, form, writes,
          ld, ldTimer, ldReqs,
          vs, vsReqs, db, dbReqs,
          funnelData, funnelLoading, funnelView, nbData, nbLoading, nbView,
          tsRaw, tsPeriod, tsInFlight, tsData, tsLoading, tsError, tsView,
          vdRows, vdData, vdLoading, vdTab, vdRenders, vdShown,
          srcData, srcLoading, srcView,
          lblKind, lblKey, lblShown>>

-----------------------------------------------------------------------------
(* Number formatting                                                       *)

\* The integer nearest to num / den, ties upwards (num >= 0, den > 0).
RoundHalfUp(num, den) == (2 * num + den) \div (2 * den)

\* (num / den).toFixed(1) for a fraction num / den >= 0, written from its
\* number of tenths.
TenthsText(t) == ToString(t \div 10) \o "." \o ToString(t % 10)

toFixed1(num, den) == TenthsText(RoundHalfUp(10 * num, den))

\* The JavaScript quotient a / b of two non-negative integers, as the
\* fraction <<a, b>>, or the special value division by zero produces.
JsDivide(a, b) ==
    IF b # 0 THEN [kind |-> "number", num |-> a, den |-> b]
    ELSE IF a = 0 THEN [kind |-> "NaN", num |-> 0, den |-> 1]
    ELSE [kind |-> "Infinity", num |-> 0, den |-> 1]

\* `${(q * 100).toFixed(1)}` for a quotient q as JsDivide gives it.
PercentText(q) ==
    IF q.kind = "number" THEN toFixed1(q.num * 100, q.den) ELSE q.kind

-----------------------------------------------------------------------------
(* FunnelChart                                                             *)

MaxStages == 3
MaxFunnelCount == 2

KnownStages ==
    {"landing_leads", "contacted", "qualified", "visit_scheduled",
     "visit_completed"}

\* Stage keys the backend may send: the configured ones and one the label
\* map does not know.
StageKeys == KnownStages \cup {"reactivated"}

stageLabels(stage) ==
    CASE stage = "landing_leads"   -> "Leads Captados"
      [] stage = "contacted"       -> "Contatados"
      [] stage = "qualified"       -> "Qualificados"
      [] stage = "visit_scheduled" -> "Visita Agendada"
      [] stage = "visit_completed" -> "Visita Realizada"
      [] OTHER                     -> ""

\* stageLabels[item.stage] || item.stage
StageLabel(stage) ==
    IF stage \in KnownStages THEN stageLabels(stage) ELSE stage

NoRate == ""

calculateConversionRateUnguarded(data, currentIndex) ==
    IF currentIndex = 0 THEN NoRate
    ELSE PercentText(JsDivide(data[currentIndex + 1].count,
                              data[currentIndex].count)) \o "%"

calculateConversionRateOfFirst(data, currentIndex) ==
    IF currentIndex = 0 THEN NoRate
    ELSE IF data[currentIndex].count = 0 THEN "0%"
    ELSE PercentText(JsDivide(data[currentIndex + 1].count,
                              data[1].count)) \o "%"

\* calculateConversionRate(currentIndex): currentIndex counts from 0 as in
\* the source, the sequence data from 1.
calculateConversionRate(data, currentIndex) ==
    IF currentIndex = 0 THEN NoRate
    ELSE IF data[currentIndex].count = 0 THEN "0%"
    ELSE PercentText(JsDivide(data[currentIndex + 1].count,
                              data[currentIndex].count)) \o "%"

\* formattedData.findIndex(item => item.stage === stage), from 0; -1 if none.
FindStageIndex(data, stage) ==
    IF \E i \in 1..Len(data) : data[i].stage = stage
    THEN (CHOOSE i \in 1..Len(data) :
            /\ data[i].stage = stage
            /\ \A j \in 1..(i - 1) : data[j].stage # stage) - 1
    ELSE -1

\* The "Taxa de Conversao entre Etapas" rows: formattedData.slice(1).map.
ConversionRows(data) ==
    [k \in 1..(IF Len(data) = 0 THEN 0 ELSE Len(data) - 1) |->
        [from |-> StageLabel(data[k].stage),
         to   |-> StageLabel(data[k + 1].stage),
         rate |-> calculateConversionRate(data, k)]]

\* The tooltip's conversion line of each bar ("" renders no line).
TooltipRates(data) ==
    [i \in 1..Len(data) |->
        calculateConversionRate(data, FindStageIndex(data, data[i].stage))]

PercentOfTotalTextOfCount(item) == ToString(item.count) \o ".0%"

\* The tooltip's "Do total" line: `${data.percentage.toFixed(1)}%`.
PercentOfTotalText(item) ==
    IF item.percentage.kind = "number"
    THEN toFixed1(item.percentage.num, item.percentage.den) \o "%"
    ELSE item.percentage.kind \o "%"

NotRendered ==
    [branch |-> "none", labels |-> <<>>, shares |-> <<>>, rows |-> <<>>,
     tooltips |-> <<>>]

FunnelChart(data, isLoading) ==
    IF isLoading THEN [NotRendered EXCEPT !.branch = "loading"]
    ELSE IF Len(data) = 0 THEN [NotRendered EXCEPT !.branch = "empty"]
    ELSE [branch   |-> "chart",
          labels   |-> [i \in 1..Len(data) |-> StageLabel(data[i].stage)],
          shares   |-> [i \in 1..Len(data) |-> PercentOfTotalText(data[i])],
          rows     |-> ConversionRows(data),
          tooltips |-> TooltipRates(data)]

\* The funnel of the specification's scenario.
ScenarioFunnel ==
    << [stage |-> "landing_leads",   count |-> 100],
       [stage |-> "contacted",       count |-> 60],
       [stage |-> "qualified",       count |-> 30],
       [stage |-> "visit_scheduled", count |-> 10],
       [stage |-> "visit_completed", count |-> 2] >>

\* Funnels the backend may send: n stages with distinct keys, in any order,
\* each with a count.
StageOrders(n) ==
    {s \in [1..n -> StageKeys] : \A i, j \in 1..n : i # j => s[i] # s[j]}

FunnelOf(st, ct) == [i \in DOMAIN st |-> [stage |-> st[i], count |-> ct[i]]]

\* GET /analytics/funnel: each stage with its count and its percentage of
\* the first stage's count (0 when the first stage counts 0).
FunnelCalculator(stages) ==
    [i \in DOMAIN stages |->
        [stage |-> stages[i].stage,
         count |-> stages[i].count,
         percentage |->
            IF stages[1].count = 0
            THEN [kind |-> "number", num |-> 0, den |-> 1]
            ELSE JsDivide(stages[i].count * 100, stages[1].count)]]

FunnelInputs(n) ==
    {FunnelCalculator(FunnelOf(st, ct)) :
        st \in StageOrders(n), ct \in [1..n -> 0..MaxFunnelCount]}

-----------------------------------------------------------------------------
(* SourcePieChart                                                          *)

MaxSources == 3
MaxSourceCount == 2

\* A count large enough for a slice of 1 or 2 leads beside it to fall
\* under, or exactly on, a twentieth of the total.
LargeSourceCount == 38

KnownSources ==
    {"website", "facebook", "instagram", "google", "referral", "whatsapp",
     "direct", "other"}

\* Source keys of the responses followed: three the label map knows and one
\* it does not.
SourceKeys == {"website", "facebook", "other", "tiktok"}

sourceLabels(source) ==
    CASE source = "website"   -> "Website"
      [] source = "facebook"  -> "Facebook"
      [] source = "instagram" -> "Instagram"
      [] source = "google"    -> "Google"
      [] source = "referral"  -> "Indicação"
      [] source = "whatsapp"  -> "WhatsApp"
      [] source = "direct"    -> "Direto"
      [] source = "other"     -> "Outros"
      [] OTHER                -> ""

\* sourceLabels[item.source] || item.source
SourceName(source) ==
    IF source \in KnownSources THEN sourceLabels(source) ELSE source

RECURSIVE SumValues(_)
\* The sum of the slices' values, which Pie divides each value by.
SumValues(seq) ==
    IF seq = <<>> THEN 0 ELSE seq[1].count + SumValues(Tail(seq))

NoLabel == ""

\* x.toFixed(0) for the fraction num / den >= 0.
toFixed0(num, den) == ToString(RoundHalfUp(num, den))

renderCustomizedLabelWithoutThreshold(value, sum) ==
    toFixed0(100 * value, sum) \o "%"

\* renderCustomizedLabel for the slice of a value in a pie whose values sum
\* to sum > 0: percent is value / sum.
renderCustomizedLabel(value, sum) ==
    IF 20 * value < sum THEN NoLabel
    ELSE toFixed0(100 * value, sum) \o "%"

PieNotRendered == [branch |-> "none", names |-> <<>>, labels |-> <<>>]

\* SourcePieChart's card content: the legend's names and the in-slice label
\* of every entry ("" where there is none).  Pie draws no sector, and so no
\* label, when the values sum to 0.
SourcePieChart(data, isLoading) ==
    IF isLoading THEN [PieNotRendered EXCEPT !.branch = "loading"]
    ELSE IF Len(data) = 0 THEN [PieNotRendered EXCEPT !.branch = "empty"]
    ELSE [branch |-> "chart",
          names |-> [i \in 1..Len(data) |-> SourceName(data[i].source)],
          labels |-> [i \in 1..Len(data) |->
                        IF SumValues(data) = 0 THEN NoLabel
                        ELSE renderCustomizedLabel(data[i].count,
                                                   SumValues(data))]]

\* website 50, facebook 30, other 20.
ScenarioSources ==
    <<[source |-> "website", count |-> 50],
      [source |-> "facebook", count |-> 30],
      [source |-> "other", count |-> 20]>>

SourceCounts == (0..MaxSourceCount) \cup {LargeSourceCount}

\* The responses of n distinct sources.
SourceInputs(n) ==
    {[i \in 1..n |-> [source |-> st[i], count |-> ct[i]]] :
        st \in {f \in [1..n -> SourceKeys] :
                  \A i, j \in 1..n : i # j => f[i] # f[j]},
        ct \in [1..n -> SourceCounts]}

-----------------------------------------------------------------------------
(* Categorical labels                                                      *)

\* What React renders for undefined: nothing.
Blank == ""

KnownLeadStatuses ==
    {"novo", "qualificado", "visita_agendada", "negociando", "convertido",
     "perdido"}

\* STATUS_LABELS of LeadsContent
leadStatusLabels(status) ==
    CASE status = "novo"            -> "Novo"
      [] status = "qualificado"     -> "Qualificado"
      [] status = "visita_agendada" -> "Visita Agendada"
      [] status = "negociando"      -> "Negociando"
      [] status = "convertido"      -> "Convertido"
      [] status = "perdido"         -> "Perdido"
      [] OTHER                      -> Blank

\* {STATUS_LABELS[lead.status]}
LeadStatusBadge(status) == leadStatusLabels(status)

KnownVisitStatuses == {"pendente", "confirmada", "realizada", "cancelada"}

\* STATUS_LABELS of VisitsContent
visitStatusLabels(status) ==
    CASE status = "pendente"   -> "Pendente"
      [] status = "confirmada" -> "Confirmada"
      [] status = "realizada"  -> "Realizada"
      [] status = "cancelada"  -> "Cancelada"
      [] OTHER                 -> Blank

\* {STATUS_LABELS[visit.status]}
VisitStatusBadge(status) == visitStatusLabels(status)

LabelKinds == {"stage", "source", "leadStatus", "visitStatus"}

KnownKeys(kind) ==
    CASE kind = "stage"       -> KnownStages
      [] kind = "source"      -> KnownSources
      [] kind = "leadStatus"  -> KnownLeadStatuses
      [] kind = "visitStatus" -> KnownVisitStatuses

\* The keys a response may carry: those of the label maps and, for each
\* map, one it does not know.
LabelKeys ==
    KnownStages \cup KnownSources \cup KnownLeadStatuses
    \cup KnownVisitStatuses
    \cup {"reactivated", "tiktok", "arquivado", "reagendada"}

\* The label each lookup renders for a key.
DisplayedLabel(kind, key) ==
    CASE kind = "stage"       -> StageLabel(key)
      [] kind = "source"      -> SourceName(key)
      [] kind = "leadStatus"  -> LeadStatusBadge(key)
      [] kind = "visitStatus" -> VisitStatusBadge(key)

LabelNotRendered == [rendered |-> FALSE, text |-> Blank]

-----------------------------------------------------------------------------
(* NeighborhoodBarChart                                                    *)

TopN == 10
MaxPad == 5
MaxShort == 2
MaxNbCount == 2

RECURSIVE SumCounts(_)
\* seq.reduce((sum, item) => sum + item.count, 0)
SumCounts(seq) ==
    IF seq = <<>> THEN 0 ELSE seq[1].count + SumCounts(Tail(seq))

\* [...data].sort((a, b) => b.count - a.count): Array.prototype.sort is
\* stable, so an entry's place is the number of entries that count more plus
\* the number of earlier entries that count the same.
SortByCountDesc(data) ==
    LET n == Len(data)
        Place(i) ==
            Cardinality({j \in 1..n : data[j].count > data[i].count})
            + Cardinality({j \in 1..(i - 1) : data[j].count = data[i].count})
            + 1
    IN  [p \in 1..n |-> data[CHOOSE i \in 1..n : Place(i) = p]]

\* seq.slice(0, end)
SliceFromStart(seq, end) ==
    SubSeq(seq, 1, IF Len(seq) < end THEN Len(seq) ELSE end)

\* seq.reverse()
Reverse(seq) == [i \in 1..Len(seq) |-> seq[Len(seq) + 1 - i]]

top10DataUnsorted(data) == Reverse(SliceFromStart(data, TopN))

top10DataNotReversed(data) == SliceFromStart(SortByCountDesc(data), TopN)

top10DataTiesLastFirst(data) ==
    Reverse(SliceFromStart(SortByCountDesc(Reverse(data)), TopN))

top10Data(data) == Reverse(SliceFromStart(SortByCountDesc(data), TopN))

NbTooltipOfGrandTotal(data, entry) ==
    LET totalLeads == SumCounts(data)
    IN  IF totalLeads > 0
        THEN PercentText(JsDivide(entry.count, totalLeads)) \o "%"
        ELSE TenthsText(0) \o "%"

\* CustomTooltip's "Do Top 10" line for the bar of `entry`.
NbTooltip(data, entry) ==
    LET totalLeads == SumCounts(top10Data(data))
    IN  IF totalLeads > 0
        THEN PercentText(JsDivide(entry.count, totalLeads)) \o "%"
        ELSE TenthsText(0) \o "%"

NbNotRendered ==
    [branch |-> "none", bars |-> <<>>, shares |-> <<>>,
     leader |-> 0, total |-> 0, average |-> 0]

NeighborhoodBarChart(data, isLoading) ==
    LET top == top10Data(data)
    IN  IF isLoading THEN [NbNotRendered EXCEPT !.branch = "loading"]
        ELSE IF Len(data) = 0 THEN [NbNotRendered EXCEPT !.branch = "empty"]
        ELSE [branch  |-> "chart",
              bars    |-> top,
              shares  |-> [i \in 1..Len(top) |-> NbTooltip(data, top[i])],
              leader  |-> IF Len(top) > 0 THEN top[Len(top)].count ELSE 0,
              total   |-> SumCounts(top),
              average |-> RoundHalfUp(SumCounts(top),
                                      IF Len(top) > 1 THEN Len(top) ELSE 1)]

\* k entries that all count b.
Pad(k, b) == [i \in 1..k |-> b]

\* Neighborhood tables the backend may send: a table has one row per
\* neighborhood, so its names are distinct; its counts are a short free run
\* between two runs of rows that tie.
NbCountLists ==
    { Pad(k, b) \o s \o Pad(j, b) :
        k \in 0..MaxPad, j \in 0..MaxPad, b \in 0..MaxNbCount,
        s \in UNION {[1..n -> 0..MaxNbCount] : n \in 0..MaxShort} }

NbInputs ==
    { [i \in 1..Len(c) |-> [neighborhood |-> "Bairro " \o ToString(i),
                            count |-> c[i]]] : c \in NbCountLists }

-----------------------------------------------------------------------------
(* Time series: backend response, AnalyticsContent state, TimeSeriesChart  *)

MaxActiveDays == 2
MaxInFlight == 2

Periods == {"7d", "30d", "90d"}

\* The day count a period selects.
PeriodDays(p) ==
    CASE p = "7d" -> 7 [] p = "30d" -> 30 [] p = "90d" -> 90

\* A date is the number of days from today: 0 is today, -1 yesterday.
WindowDates(p) == (1 - PeriodDays(p))..0

\* GET /analytics/timeseries?period=p over the raw rows: one point per
\* calendar day of the window, ascending, zero for a day without a row; the
\* empty sequence when the window holds no row at all.
BackendTimeSeries(raw, p) ==
    LET n == PeriodDays(p)
    IN  IF DOMAIN raw \cap WindowDates(p) = {} THEN <<>>
        ELSE [i \in 1..n |->
                LET date == i - n
                IN  IF date \in DOMAIN raw
                    THEN [date |-> date, leads |-> raw[date].leads,
                          visits |-> raw[date].visits]
                    ELSE [date |-> date, leads |-> 0, visits |-> 0]]

TsNoData == [period |-> "none", timeSeries |-> <<>>]

\* setData({timeSeries: timeSeriesResponse.data, ...})
TsSetData(p, response) == [period |-> p, timeSeries |-> response]

RECURSIVE ActiveDaysOnly(_)
ActiveDaysOnly(data) ==
    IF data = <<>> THEN <<>>
    ELSE IF data[1].leads = 0 /\ data[1].visits = 0
         THEN ActiveDaysOnly(Tail(data))
         ELSE <<data[1]>> \o ActiveDaysOnly(Tail(data))

TimeSeriesChartWithoutEmptyState(data, isLoading) ==
    IF isLoading THEN [branch |-> "loading", points |-> <<>>]
    ELSE [branch |-> "chart", points |-> data]

TimeSeriesChartOfActiveDays(data, isLoading) ==
    IF isLoading THEN [branch |-> "loading", points |-> <<>>]
    ELSE IF Len(data) = 0 THEN [branch |-> "empty", points |-> <<>>]
    ELSE [branch |-> "chart", points |-> ActiveDaysOnly(data)]

\* TimeSeriesChart's CardContent: the loading text, the empty text, or the
\* AreaChart over data as it is.
TimeSeriesChart(data, isLoading) ==
    IF isLoading THEN [branch |-> "loading", points |-> <<>>]
    ELSE IF Len(data) = 0 THEN [branch |-> "empty", points |-> <<>>]
    ELSE [branch |-> "chart", points |-> data]

TsNoError == ""

\* err.message, or the fallback text of the catch block.
TsErrorMessage == "Erro ao carregar dados de analytics"

\* The place of TimeSeriesChart in what AnalyticsContent returns: the chart
\* is not mounted while the error Alert is shown.
TimeSeriesPanel(error, data, isLoading) ==
    IF error # TsNoError THEN [branch |-> "unmounted", points |-> <<>>]
    ELSE TimeSeriesChart(data, isLoading)

\* Days on which the raw table may hold a row: both ends of every window.
CandidateDates == {0, -6, -7, -29, -89}

ActivityValues ==
    {[leads |-> 1, visits |-> 0], [leads |-> 0, visits |-> 1],
     [leads |-> 3, visits |-> 2]}

RawInputs ==
    UNION { [days -> ActivityValues] :
              days \in {d \in SUBSET CandidateDates :
                          Cardinality(d) <= MaxActiveDays} }

-----------------------------------------------------------------------------
(* The data-fetching views                                                 *)

MaxRequests == 2
MaxTotalPages == 2

\* The number of calls LeadsContent makes to the list endpoint in one run:
\* going to page 2 and back takes three.
MaxLeadsRequests == 3

\* The views a run follows: a page, or one of the two components of the
\* brokers page, the list with its dialog ("brokers") and the BrokerStats
\* card ("brokerStats"), which share no state and are followed apart.
Routes ==
    {"dashboard", "analytics", "leads", "visits", "brokers", "brokerStats"}

\* data and error hold the number of the call they came from; 0 is null.
Null == 0

\* The calls of a view that have not settled, and whether none is left.
Pending(reqs) == {r \in 1..Len(reqs) : reqs[r].state = "pending"}

(* AnalyticsContent *)

AnalyticsFetches == {"timeSeries", "funnel", "sources", "neighborhoods"}

\* One fetchAnalyticsData call at its await: Promise.all over four fetches.
NewAnalyticsRequest(p) ==
    [period |-> p, state |-> "pending",
     fetches |-> [f \in AnalyticsFetches |-> "pending"]]

\* chartPeriod is the period state of the TimeSeriesChart mounted inside:
\* useState('30d'), which selects the tab shown.
AnalyticsMounted ==
    [data |-> Null, isLoading |-> TRUE, error |-> Null, period |-> "30d",
     chartPeriod |-> "30d"]

\* fetchAnalyticsData before its await: setIsLoading(true); setError(null).
\* Clearing an error mounts the charts anew, TimeSeriesChart with its
\* initial period.
fetchAnalyticsDataStart(state) ==
    [state EXCEPT !.isLoading = TRUE, !.error = Null,
                  !.chartPeriod = IF state.error # Null THEN "30d" ELSE @]

\* What AnalyticsContent returns: the Alert alone when error is set, else
\* the four charts, each on data?.x || [] and isLoading.
AnalyticsView(state) ==
    IF state.error # Null
    THEN [branch |-> "error", controls |-> {},
          panels |-> [f \in AnalyticsFetches |-> "unmounted"]]
    ELSE [branch |-> "charts", controls |-> {"periodTabs"},
          panels |-> [f \in AnalyticsFetches |->
                        IF state.isLoading THEN "loading"
                        ELSE IF state.data = Null THEN "empty"
                        ELSE "data"]]

(* BrokerStats *)

NoRanking == [req |-> Null, rows |-> FALSE]

BrokerStatsMounted ==
    [ranking |-> NoRanking, period |-> "30d", loading |-> TRUE]

\* BrokerStats' CardContent; the period buttons are always rendered.
BrokerStatsView(state) ==
    [branch |-> IF state.loading THEN "loading"
                ELSE IF ~state.ranking.rows THEN "empty"
                ELSE "list",
     controls |-> {"periodButtons"}]

(* BrokersPage *)

MaxWrites == 2

NoBrokers == [req |-> Null, rows |-> FALSE]

\* The broker of the list's row, when the list has one.
ListedBroker == [id |-> 1, name |-> "Reno", phone |-> "5585"]

BrokersPageMounted ==
    [brokers |-> NoBrokers, loading |-> TRUE, dialogOpen |-> FALSE,
     selectedBroker |-> Null]

\* The list card of BrokersPage; while the dialog is open its overlay covers
\* the page.
BrokersPageView(state) ==
    LET branch == IF state.loading THEN "loading"
                  ELSE IF ~state.brokers.rows THEN "empty"
                  ELSE "table"
    IN  [branch |-> branch,
         controls |-> IF state.dialogOpen THEN {}
                      ELSE {"add"} \cup (IF branch = "table"
                                         THEN {"edit", "delete"} ELSE {})]

(* BrokerFormDialog *)

\* What the name and phone inputs may hold.
FieldValues == {"", "Ana"}

EmptyForm == [name |-> "", phone |-> ""]

NoFormError == ""
ValidationMessage == "Nome e telefone sao obrigatorios"
SaveErrorMessage == "Erro ao salvar corretor"

\* useState initial values; broker is null when the page mounts the dialog.
BrokerFormMounted ==
    [loading |-> FALSE, error |-> NoFormError, formData |-> EmptyForm]

\* A call of brokersApi.create, update or delete at its await.
NewWrite(kind, id, data) ==
    [kind |-> kind, id |-> id, data |-> data, state |-> "pending"]

\* A write may be issued while the run has room for it and for the
\* loadBrokers call its success makes.
RoomForWrite ==
    /\ Len(writes) < MaxWrites
    /\ Len(bpReqs) + Cardinality(Pending(writes)) < MaxRequests

\* loadBrokers before its await: setLoading(true).
loadBrokersStart(state) == [state EXCEPT !.loading = TRUE]

(* LeadsContent *)

\* What the search input may hold: empty, a word and a prefix of it.
SearchTerms == {"", "an", "ana"}
LeadStatuses == {"", "novo", "perdido"}

NoTimer == [armed |-> FALSE, value |-> ""]

NoLeads == [req |-> Null, total_pages |-> 0, rows |-> FALSE]

LeadsMounted ==
    [data |-> NoLeads, loading |-> TRUE, error |-> Null, search |-> "",
     status |-> "", page |-> 1, debouncedSearch |-> ""]

\* The values fetchLeads closes over: its useCallback dependencies.
LeadsParams(state) ==
    [page |-> state.page, search |-> state.debouncedSearch,
     status |-> state.status]

NewLeadsRequest(state) ==
    [page |-> state.page, search |-> state.debouncedSearch,
     status |-> state.status, state |-> "pending"]

\* fetchLeads before its await: setLoading(true); setError(null).
fetchLeadsStart(state) == [state EXCEPT !.loading = TRUE, !.error = Null]

\* GET /leads: a page of the filtered leads; it has rows when the page asked
\* for is one of the total_pages.
LeadsResponse(r, req, totalPages) ==
    [req |-> r, total_pages |-> totalPages, rows |-> req.page <= totalPages]

\* LeadsContent's CardContent below the filters.
LeadsView(state) ==
    LET branch == IF state.error # Null THEN "error"
                  ELSE IF state.loading THEN "loading"
                  ELSE IF state.data.req = Null \/ ~state.data.rows THEN "empty"
                  ELSE "table"
        pager == branch = "table" /\ state.data.total_pages > 1
    IN  [branch |-> branch,
         controls |->
            {"search", "status"}
            \cup (IF branch = "error" THEN {"retry"} ELSE {})
            \cup (IF pager /\ ~(state.page = 1 \/ state.loading)
                  THEN {"previous"} ELSE {})
            \cup (IF pager /\ ~(state.page = state.data.total_pages
                                \/ state.loading)
                  THEN {"next"} ELSE {})]

(* VisitsContent *)

VisitStatuses == {"", "pendente", "realizada"}

NoVisits == [req |-> Null, rows |-> FALSE]

VisitsMounted ==
    [data |-> NoVisits, loading |-> TRUE, error |-> Null, status |-> ""]

NewVisitsRequest(state) == [status |-> state.status, state |-> "pending"]

\* fetchVisits before its await: setLoading(true); setError(null).
fetchVisitsStart(state) == [state EXCEPT !.loading = TRUE, !.error = Null]

\* VisitsContent's TabsContent area.
VisitsView(state) ==
    LET branch == IF state.error # Null THEN "error"
                  ELSE IF state.loading THEN "loading"
                  ELSE IF state.data.req = Null \/ ~state.data.rows THEN "empty"
                  ELSE "visits"
    IN  [branch |-> branch,
         controls |-> {"status", "tabs"}
                      \cup (IF branch = "error" THEN {"retry"} ELSE {})]

(* VisitsContent: the list and the calendar *)

MaxVisits == 3
MaxRenders == 2

\* The scheduled_date and scheduled_time values of the rows, each in
\* ascending localeCompare order.
ScheduledDates == <<"2025-12-24", "2025-12-25">>
ScheduledTimes == <<"09:00:00", "14:30:00">>

\* a.localeCompare(b) for two values of an ascending list: negative, zero
\* or positive.
localeCompare(order, a, b) ==
    (CHOOSE i \in 1..Len(order) : order[i] = a)
    - (CHOOSE i \in 1..Len(order) : order[i] = b)

\* The responses of GET /visits with n rows; the id tells the rows apart.
VisitRows(n) ==
    {[i \in 1..n |-> [id |-> i,
                      scheduled_date |-> d[i],
                      scheduled_time |-> t[i]]] :
        d \in [1..n -> {ScheduledDates[k] : k \in 1..Len(ScheduledDates)}],
        t \in [1..n -> {ScheduledTimes[k] : k \in 1..Len(ScheduledTimes)}]}

\* Array.prototype.sort(compare), the comparator given as a function of
\* two elements: stable, so an element's place is the number of elements
\* that compare lower plus the number of earlier elements that compare
\* equal.
StableSort(seq, compare) ==
    LET n == Len(seq)
        Place(i) ==
            Cardinality({j \in 1..n : compare[seq[j], seq[i]] < 0})
            + Cardinality({j \in 1..(i - 1) : compare[seq[j], seq[i]] = 0})
            + 1
    IN  [p \in 1..n |-> seq[CHOOSE i \in 1..n : Place(i) = p]]

\* (a, b) => a.scheduled_time.localeCompare(b.scheduled_time), on the
\* elements of an array.
compareTime(visits) ==
    LET elements == {visits[i] : i \in 1..Len(visits)}
    IN  [a \in elements, b \in elements |->
            localeCompare(ScheduledTimes, a.scheduled_time, b.scheduled_time)]

\* The comparator of the list's sort, on the elements of an array: by
\* date, then by time.
compareDateThenTime(visits) ==
    LET elements == {visits[i] : i \in 1..Len(visits)}
    IN  [a \in elements, b \in elements |->
            LET dateCompare == localeCompare(ScheduledDates, a.scheduled_date,
                                             b.scheduled_date)
            IN  IF dateCompare # 0
                THEN dateCompare
                ELSE localeCompare(ScheduledTimes, a.scheduled_time,
                                   b.scheduled_time)]

sortVisitsTiesLastFirst(visits) ==
    StableSort([i \in 1..Len(visits) |-> visits[Len(visits) + 1 - i]],
               compareDateThenTime(visits))

\* data.visits.sort(...) of the list panel: sorts the held array in place
\* and returns it.
sortVisits(visits) == StableSort(visits, compareDateThenTime(visits))

groupVisitsByDateUnsorted(visits) ==
    [date \in {visits[i].scheduled_date : i \in 1..Len(visits)} |->
        SelectSeq(visits, LAMBDA v : v.scheduled_date = date)]

\* groupVisitsByDate: the rows of each date in array order, then each group
\* sorted by time.
groupVisitsByDate(visits) ==
    [date \in {visits[i].scheduled_date : i \in 1..Len(visits)} |->
        StableSort(SelectSeq(visits, LAMBDA v : v.scheduled_date = date),
                   compareTime(visits))]

\* Object.keys(groupedVisits).sort()
sortedDates(groupedVisits) ==
    SelectSeq(ScheduledDates, LAMBDA date : date \in DOMAIN groupedVisits)

\* data of VisitsContent: null before the first response, then the response
\* whose visits array the renders sort.
NullVisitsData == [isNull |-> TRUE, visits |-> <<>>]

VisitsData(visits) == [isNull |-> FALSE, visits |-> visits]

NoAgenda == [branch |-> "none", list |-> <<>>, dates |-> <<>>, groups |-> <<>>]

\* One render of VisitsContent without an error: groupedVisits and
\* sortedDates are computed from the array as it stands, and in the visits
\* branch the list panel's children sort the array in place.  Gives the
\* data after the render and the content of the two panels.
VisitsRender(data, loading) ==
    IF loading
    THEN [data |-> data,
          shown |-> [NoAgenda EXCEPT !.branch = "loading"]]
    ELSE IF data.isNull \/ Len(data.visits) = 0
    THEN [data |-> data,
          shown |-> [NoAgenda EXCEPT !.branch = "empty"]]
    ELSE LET groupedVisits == groupVisitsByDate(data.visits)
         IN  [data |-> VisitsData(sortVisits(data.visits)),
              shown |-> [branch |-> "visits",
                         list |-> sortVisits(data.visits),
                         dates |-> sortedDates(groupedVisits),
                         groups |-> groupedVisits]]

(* DashboardContent *)

MaxTotalLeads == 3
MaxCompletedVisits == 3

\* The lead and visit rows the metrics endpoint aggregates, by the two
\* counts the conversion rate is made of.
Snapshots ==
    [total_leads : 0..MaxTotalLeads, completed_visits : 0..MaxCompletedVisits]

\* GET /dashboard/metrics: the counters of the snapshot and the conversion
\* rate completed_visits / total_leads * 100, 0 when there is no lead.
MetricsAggregator(r, snapshot) ==
    [req |-> r,
     total_leads |-> snapshot.total_leads,
     completed_visits |-> snapshot.completed_visits,
     conversion_rate |->
        IF snapshot.total_leads = 0
        THEN [kind |-> "number", num |-> 0, den |-> 1]
        ELSE JsDivide(snapshot.completed_visits * 100, snapshot.total_leads)]

NoMetrics ==
    [req |-> Null, total_leads |-> 0, completed_visits |-> 0,
     conversion_rate |-> [kind |-> "number", num |-> 0, den |-> 1]]

DashboardMounted == [metrics |-> NoMetrics, loading |-> TRUE, error |-> Null]

ConversionRateTextTruncated(metrics) ==
    LET rate == metrics.conversion_rate
    IN  IF rate.kind = "number"
        THEN ToString(rate.num \div rate.den) \o ".0%"
        ELSE "0.0%"

\* `${(metrics.conversion_rate || 0).toFixed(1)}%`: 0 and NaN are falsy.
ConversionRateText(metrics) ==
    LET rate == metrics.conversion_rate
    IN  IF rate.kind = "Infinity" THEN "Infinity%"
        ELSE IF rate.kind = "NaN" \/ rate.num = 0 THEN toFixed1(0, 1) \o "%"
        ELSE toFixed1(rate.num, rate.den) \o "%"

\* What DashboardContent returns: skeleton, error card, nothing, or stats.
DashboardView(state) ==
    LET branch == IF state.loading THEN "loading"
                  ELSE IF state.error # Null THEN "error"
                  ELSE IF state.metrics.req = Null THEN "nothing"
                  ELSE "stats"
    IN  [branch |-> branch,
         controls |-> {},
         conversionRate |-> IF branch = "stats"
                            THEN ConversionRateText(state.metrics) ELSE ""]

\* A plain call (one request, one response) at its await.
NewRequest == [state |-> "pending"]

Settle(reqs, r, outcome) == [reqs EXCEPT ![r].state = outcome]

-----------------------------------------------------------------------------
(* Idle values: a specification pins the variables it does not use         *)

FunnelIdle ==
    /\ funnelData = <<>>
    /\ funnelLoading = FALSE
    /\ funnelView = NotRendered

NbIdle ==
    /\ nbData = <<>>
    /\ nbLoading = FALSE
    /\ nbView = NbNotRendered

\* No page is mounted: every view holds its initial state and has made no
\* call.
UiIdle ==
    /\ route = "none"
    /\ an = AnalyticsMounted /\ anReqs = <<>>
    /\ bs = BrokerStatsMounted /\ bsReqs = <<>>
    /\ bp = BrokersPageMounted /\ bpReqs = <<>>
    /\ form = BrokerFormMounted /\ writes = <<>>
    /\ ld = LeadsMounted /\ ldTimer = NoTimer /\ ldReqs = <<>>
    /\ vs = VisitsMounted /\ vsReqs = <<>>
    /\ db = DashboardMounted /\ dbReqs = <<>>

TsIdle ==
    /\ tsRaw = <<>>
    /\ tsPeriod = "30d"
    /\ tsInFlight = <<>>
    /\ tsData = TsNoData
    /\ tsLoading = FALSE
    /\ tsError = TsNoError
    /\ tsView = [branch |-> "none", points |-> <<>>]

LabelIdle ==
    /\ lblKind = "stage"
    /\ lblKey = "landing_leads"
    /\ lblShown = LabelNotRendered

PieIdle ==
    /\ srcData = <<>>
    /\ srcLoading = FALSE
    /\ srcView = PieNotRendered

AgendaIdle ==
    /\ vdRows = <<>>
    /\ vdData = NullVisitsData
    /\ vdLoading = FALSE
    /\ vdTab = "list"
    /\ vdRenders = 0
    /\ vdShown = NoAgenda

-----------------------------------------------------------------------------
(* Spec: the pages                                                         *)

\* The router mounts one page; its effects have run up to their first
\* await, so its first call is in flight.
Init ==
    /\ route \in Routes
    /\ an = AnalyticsMounted
    /\ anReqs = IF route = "analytics"
                THEN <<NewAnalyticsRequest("30d")>> ELSE <<>>
    /\ bs = BrokerStatsMounted
    /\ bsReqs = IF route = "brokerStats"
                THEN <<[period |-> "30d", state |-> "pending"]>> ELSE <<>>
    /\ bp = BrokersPageMounted
    /\ bpReqs = IF route = "brokers" THEN <<NewRequest>> ELSE <<>>
    /\ form = BrokerFormMounted
    /\ writes = <<>>
    /\ ld = LeadsMounted
    /\ ldTimer = IF route = "leads"
                 THEN [armed |-> TRUE, value |-> ""] ELSE NoTimer
    /\ ldReqs = IF route = "leads"
                THEN <<NewLeadsRequest(LeadsMounted)>> ELSE <<>>
    /\ vs = VisitsMounted
    /\ vsReqs = IF route = "visits"
                THEN <<NewVisitsRequest(VisitsMounted)>> ELSE <<>>
    /\ db = DashboardMounted
    /\ dbReqs = IF route = "dashboard" THEN <<NewRequest>> ELSE <<>>
    /\ FunnelIdle
    /\ NbIdle
    /\ TsIdle
    /\ AgendaIdle
    /\ PieIdle
    /\ LabelIdle

(* AnalyticsContent *)

handlePeriodChangeOfTheParentOnly(newPeriod) ==
    /\ route = "analytics"
    /\ "periodTabs" \in AnalyticsView(an).controls
    /\ newPeriod # an.period
    /\ Len(anReqs) < MaxRequests
    /\ an' = [fetchAnalyticsDataStart(an) EXCEPT !.period = newPeriod]
    /\ anReqs' = Append(anReqs, NewAnalyticsRequest(newPeriod))
    /\ UNCHANGED <<route, bsVars, bpVars, ldVars, vsVars, dbVars, chartVars>>

\* A period tab of TimeSeriesChart: handlePeriodChange, setPeriod, and the
\* effect's fetchAnalyticsData(period) up to its await.
handlePeriodChange(newPeriod) ==
    /\ route = "analytics"
    /\ "periodTabs" \in AnalyticsView(an).controls
    /\ newPeriod # an.period
    /\ Len(anReqs) < MaxRequests
    /\ an' = [fetchAnalyticsDataStart(an) EXCEPT !.period = newPeriod,
                                                 !.chartPeriod = newPeriod]
    /\ anReqs' = Append(anReqs, NewAnalyticsRequest(newPeriod))
    /\ UNCHANGED <<route, bsVars, bpVars, ldVars, vsVars, dbVars, chartVars>>

\* One of the four fetches of call r resolves; when it is the last one,
\* Promise.all resolves: setData, and finally setIsLoading(false).
AnalyticsFetchResolves(r, f) ==
    /\ route = "analytics"
    /\ r \in 1..Len(anReqs)
    /\ anReqs[r].fetches[f] = "pending"
    /\ LET fetches == [anReqs[r].fetches EXCEPT ![f] = "ok"]
           all == \A g \in AnalyticsFetches : fetches[g] = "ok"
       IN  /\ anReqs' = [anReqs EXCEPT ![r].fetches = fetches,
                                       ![r].state = IF all THEN "ok"
                                                    ELSE "pending"]
           /\ an' = IF all THEN [an EXCEPT !.data = r, !.isLoading = FALSE]
                    ELSE an
    /\ UNCHANGED <<route, bsVars, bpVars, ldVars, vsVars, dbVars, chartVars>>

\* One of the four fetches of call r rejects: Promise.all rejects at once,
\* whatever the other three do from then on: setError, and finally
\* setIsLoading(false).
AnalyticsFetchRejects(r, f) ==
    /\ route = "analytics"
    /\ r \in 1..Len(anReqs)
    /\ anReqs[r].fetches[f] = "pending"
    /\ anReqs' = [anReqs EXCEPT
                    ![r].state = "failed",
                    ![r].fetches = [g \in AnalyticsFetches |->
                                      IF g = f THEN "failed"
                                      ELSE IF @[g] = "pending" THEN "abandoned"
                                      ELSE @[g]]]
    /\ an' = [an EXCEPT !.error = r, !.isLoading = FALSE]
    /\ UNCHANGED <<route, bsVars, bpVars, ldVars, vsVars, dbVars, chartVars>>

(* BrokerStats *)

\* A period button: setPeriod(p), and the effect's loadRanking() up to its
\* await.
BrokerStatsSetPeriod(p) ==
    /\ route = "brokerStats"
    /\ "periodButtons" \in BrokerStatsView(bs).controls
    /\ p # bs.period
    /\ Len(bsReqs) < MaxRequests
    /\ bs' = [bs EXCEPT !.period = p, !.loading = TRUE]
    /\ bsReqs' = Append(bsReqs, [period |-> p, state |-> "pending"])
    /\ UNCHANGED <<route, anVars, bpVars, ldVars, vsVars, dbVars, chartVars>>

\* brokersApi.ranking resolves: setRanking, and finally setLoading(false).
loadRankingResolves(r, rows) ==
    /\ route = "brokerStats"
    /\ r \in Pending(bsReqs)
    /\ bs' = [bs EXCEPT !.ranking = [req |-> r, rows |-> rows],
                        !.loading = FALSE]
    /\ bsReqs' = Settle(bsReqs, r, "ok")
    /\ UNCHANGED <<route, anVars, bpVars, ldVars, vsVars, dbVars, chartVars>>

\* brokersApi.ranking rejects: console.error, and finally
\* setLoading(false).
loadRankingRejects(r) ==
    /\ route = "brokerStats"
    /\ r \in Pending(bsReqs)
    /\ bs' = [bs EXCEPT !.loading = FALSE]
    /\ bsReqs' = Settle(bsReqs, r, "failed")
    /\ UNCHANGED <<route, anVars, bpVars, ldVars, vsVars, dbVars, chartVars>>

(* BrokersPage *)

\* brokersApi.list resolves: setBrokers, setTotal, and finally
\* setLoading(false).
loadBrokersResolves(r, rows) ==
    /\ route = "brokers"
    /\ r \in Pending(bpReqs)
    /\ bp' = [bp EXCEPT !.brokers = [req |-> r, rows |-> rows],
                        !.loading = FALSE]
    /\ bpReqs' = Settle(bpReqs, r, "ok")
    /\ UNCHANGED <<route, form, writes, anVars, bsVars, ldVars, vsVars, dbVars,
                   chartVars>>

\* brokersApi.list rejects: console.error, and finally setLoading(false).
loadBrokersRejects(r) ==
    /\ route = "brokers"
    /\ r \in Pending(bpReqs)
    /\ bp' = [bp EXCEPT !.loading = FALSE]
    /\ bpReqs' = Settle(bpReqs, r, "failed")
    /\ UNCHANGED <<route, form, writes, anVars, bsVars, ldVars, vsVars, dbVars,
                   chartVars>>

\* "Adicionar Corretor": setSelectedBroker(null); setDialogOpen(true).
handleAdd ==
    /\ route = "brokers"
    /\ "add" \in BrokersPageView(bp).controls
    /\ bp' = [bp EXCEPT !.selectedBroker = Null, !.dialogOpen = TRUE]
    /\ UNCHANGED <<route, bpReqs, form, writes, anVars, bsVars, ldVars,
                   vsVars, dbVars, chartVars>>

\* The pencil of a row: setSelectedBroker(broker); setDialogOpen(true).
handleEdit ==
    /\ route = "brokers"
    /\ "edit" \in BrokersPageView(bp).controls
    /\ bp' = [bp EXCEPT !.selectedBroker = ListedBroker.id,
                        !.dialogOpen = TRUE]
    /\ UNCHANGED <<route, bpReqs, form, writes, anVars, bsVars, ldVars,
                   vsVars, dbVars, chartVars>>

handleDeleteWithoutPrompt(confirmed) ==
    /\ route = "brokers"
    /\ "delete" \in BrokersPageView(bp).controls
    /\ RoomForWrite
    /\ writes' = Append(writes, NewWrite("delete", ListedBroker.id, EmptyForm))
    /\ UNCHANGED <<route, bp, bpReqs, form, anVars, bsVars, ldVars, vsVars,
                   dbVars, chartVars>>

\* The bin of a row: handleDelete up to its await; `confirmed` is the
\* user's answer to confirm().
handleDelete(confirmed) ==
    /\ route = "brokers"
    /\ "delete" \in BrokersPageView(bp).controls
    /\ IF confirmed
       THEN /\ RoomForWrite
            /\ writes' = Append(writes,
                                NewWrite("delete", ListedBroker.id, EmptyForm))
       ELSE writes' = writes
    /\ UNCHANGED <<route, bp, bpReqs, form, anVars, bsVars, ldVars, vsVars,
                   dbVars, chartVars>>

\* brokersApi.delete resolves: loadBrokers() up to its await.
deleteResolves(w) ==
    /\ route = "brokers"
    /\ w \in Pending(writes)
    /\ writes[w].kind = "delete"
    /\ writes' = Settle(writes, w, "ok")
    /\ bp' = loadBrokersStart(bp)
    /\ bpReqs' = Append(bpReqs, NewRequest)
    /\ UNCHANGED <<route, form, anVars, bsVars, ldVars, vsVars, dbVars,
                   chartVars>>

\* brokersApi.delete rejects: console.error and alert().
deleteRejects(w) ==
    /\ route = "brokers"
    /\ w \in Pending(writes)
    /\ writes[w].kind = "delete"
    /\ writes' = Settle(writes, w, "failed")
    /\ UNCHANGED <<route, bp, bpReqs, form, anVars, bsVars, ldVars, vsVars,
                   dbVars, chartVars>>

(* BrokerFormDialog *)

\* An input's onChange: setFormData({ ...formData, [field]: value }).
FormChange(field, value) ==
    /\ route = "brokers"
    /\ bp.dialogOpen
    /\ form.formData[field] # value
    /\ form' = [form EXCEPT !.formData[field] = value]
    /\ UNCHANGED <<route, bp, bpReqs, writes, anVars, bsVars, ldVars, vsVars,
                   dbVars, chartVars>>

handleSubmitWithoutValidation ==
    /\ route = "brokers"
    /\ bp.dialogOpen
    /\ ~form.loading
    /\ RoomForWrite
    /\ writes' = Append(writes,
                        IF bp.selectedBroker # Null
                        THEN NewWrite("update", bp.selectedBroker,
                                      form.formData)
                        ELSE NewWrite("create", Null, form.formData))
    /\ form' = [form EXCEPT !.loading = TRUE, !.error = NoFormError]
    /\ UNCHANGED <<route, bp, bpReqs, anVars, bsVars, ldVars, vsVars, dbVars,
                   chartVars>>

\* The form's onSubmit, up to the await or the validation's return.  The
\* submit button is disabled while loading.
handleSubmit ==
    /\ route = "brokers"
    /\ bp.dialogOpen
    /\ ~form.loading
    /\ IF bp.selectedBroker # Null
       THEN /\ RoomForWrite
            /\ writes' = Append(writes, NewWrite("update", bp.selectedBroker,
                                                 form.formData))
            /\ form' = [form EXCEPT !.loading = TRUE, !.error = NoFormError]
       ELSE IF form.formData.name = "" \/ form.formData.phone = ""
       THEN /\ writes' = writes
            /\ form' = [form EXCEPT !.loading = FALSE,
                                    !.error = ValidationMessage]
       ELSE /\ RoomForWrite
            /\ writes' = Append(writes, NewWrite("create", Null,
                                                 form.formData))
            /\ form' = [form EXCEPT !.loading = TRUE, !.error = NoFormError]
    /\ UNCHANGED <<route, bp, bpReqs, anVars, bsVars, ldVars, vsVars, dbVars,
                   chartVars>>

\* brokersApi.create or update resolves: onSuccess() (loadBrokers up to its
\* await), onOpenChange(false), and finally setLoading(false).
saveResolves(w) ==
    /\ route = "brokers"
    /\ w \in Pending(writes)
    /\ writes[w].kind \in {"create", "update"}
    /\ writes' = Settle(writes, w, "ok")
    /\ bp' = [loadBrokersStart(bp) EXCEPT !.dialogOpen = FALSE]
    /\ bpReqs' = Append(bpReqs, NewRequest)
    /\ form' = [form EXCEPT !.loading = FALSE]
    /\ UNCHANGED <<route, anVars, bsVars, ldVars, vsVars, dbVars, chartVars>>

\* brokersApi.create or update rejects: setError, and finally
\* setLoading(false).
saveRejects(w) ==
    /\ route = "brokers"
    /\ w \in Pending(writes)
    /\ writes[w].kind \in {"create", "update"}
    /\ writes' = Settle(writes, w, "failed")
    /\ form' = [form EXCEPT !.loading = FALSE, !.error = SaveErrorMessage]
    /\ UNCHANGED <<route, bp, bpReqs, anVars, bsVars, ldVars, vsVars, dbVars,
                   chartVars>>

\* A click on the overlay, or on "Cancelar" when it is enabled:
\* onOpenChange(false).
DialogClose ==
    /\ route = "brokers"
    /\ bp.dialogOpen
    /\ bp' = [bp EXCEPT !.dialogOpen = FALSE]
    /\ UNCHANGED <<route, bpReqs, form, writes, anVars, bsVars, ldVars,
                   vsVars, dbVars, chartVars>>

(* LeadsContent *)

\* A render commits the state `next`; the effect on fetchLeads calls it when
\* page, debouncedSearch or status differ from the previous render's.
LeadsCommit(next) ==
    IF LeadsParams(next) # LeadsParams(ld)
    THEN /\ Len(ldReqs) < MaxLeadsRequests
         /\ ld' = fetchLeadsStart(next)
         /\ ldReqs' = Append(ldReqs, NewLeadsRequest(next))
    ELSE /\ ld' = next
         /\ ldReqs' = ldReqs

LeadsTypeSearchWithoutClearTimeout(value) ==
    /\ route = "leads"
    /\ "search" \in LeadsView(ld).controls
    /\ value # ld.search
    /\ IF ldTimer.armed
       THEN LeadsCommit([ld EXCEPT !.search = value,
                                   !.debouncedSearch = ldTimer.value,
                                   !.page = 1])
       ELSE ld' = [ld EXCEPT !.search = value] /\ ldReqs' = ldReqs
    /\ ldTimer' = [armed |-> TRUE, value |-> value]
    /\ UNCHANGED <<route, anVars, bsVars, bpVars, vsVars, dbVars, chartVars>>

\* The search input changes: setSearch; the debounce effect clears the
\* pending timer and arms a new one with the new value.
LeadsTypeSearch(value) ==
    /\ route = "leads"
    /\ "search" \in LeadsView(ld).controls
    /\ value # ld.search
    /\ ld' = [ld EXCEPT !.search = value]
    /\ ldTimer' = [armed |-> TRUE, value |-> value]
    /\ UNCHANGED <<route, ldReqs, anVars, bsVars, bpVars, vsVars, dbVars,
                   chartVars>>

LeadsDebounceFiresToPageZero ==
    /\ route = "leads"
    /\ ldTimer.armed
    /\ LeadsCommit([ld EXCEPT !.debouncedSearch = ldTimer.value, !.page = 0])
    /\ ldTimer' = NoTimer
    /\ UNCHANGED <<route, anVars, bsVars, bpVars, vsVars, dbVars, chartVars>>

\* The debounce timer fires: setDebouncedSearch(search); setPage(1).
LeadsDebounceFires ==
    /\ route = "leads"
    /\ ldTimer.armed
    /\ LeadsCommit([ld EXCEPT !.debouncedSearch = ldTimer.value, !.page = 1])
    /\ ldTimer' = NoTimer
    /\ UNCHANGED <<route, anVars, bsVars, bpVars, vsVars, dbVars, chartVars>>

LeadsHandleStatusChangeKeepingPage(value) ==
    /\ route = "leads"
    /\ "status" \in LeadsView(ld).controls
    /\ value # ld.status
    /\ LeadsCommit([ld EXCEPT !.status = value])
    /\ UNCHANGED <<route, ldTimer, anVars, bsVars, bpVars, vsVars, dbVars,
                   chartVars>>

\* handleStatusChange of LeadsContent: setStatus(value); setPage(1).
LeadsHandleStatusChange(value) ==
    /\ route = "leads"
    /\ "status" \in LeadsView(ld).controls
    /\ value # ld.status
    /\ LeadsCommit([ld EXCEPT !.status = value, !.page = 1])
    /\ UNCHANGED <<route, ldTimer, anVars, bsVars, bpVars, vsVars, dbVars,
                   chartVars>>

\* "Anterior": setPage((p) => Math.max(1, p - 1)).
LeadsPrevious ==
    /\ route = "leads"
    /\ "previous" \in LeadsView(ld).controls
    /\ LeadsCommit([ld EXCEPT !.page = IF @ - 1 < 1 THEN 1 ELSE @ - 1])
    /\ UNCHANGED <<route, ldTimer, anVars, bsVars, bpVars, vsVars, dbVars,
                   chartVars>>

\* "Proxima": setPage((p) => Math.min(data.total_pages, p + 1)).
LeadsNext ==
    /\ route = "leads"
    /\ "next" \in LeadsView(ld).controls
    /\ LeadsCommit([ld EXCEPT !.page = IF ld.data.total_pages < @ + 1
                                       THEN ld.data.total_pages ELSE @ + 1])
    /\ UNCHANGED <<route, ldTimer, anVars, bsVars, bpVars, vsVars, dbVars,
                   chartVars>>

\* "Tentar novamente": onClick={fetchLeads}.
LeadsRetry ==
    /\ route = "leads"
    /\ "retry" \in LeadsView(ld).controls
    /\ Len(ldReqs) < MaxLeadsRequests
    /\ ld' = fetchLeadsStart(ld)
    /\ ldReqs' = Append(ldReqs, NewLeadsRequest(ld))
    /\ UNCHANGED <<route, ldTimer, anVars, bsVars, bpVars, vsVars, dbVars,
                   chartVars>>

\* apiClient.leads.getAll resolves: setData, and finally setLoading(false).
fetchLeadsResolves(r, totalPages) ==
    /\ route = "leads"
    /\ r \in Pending(ldReqs)
    /\ ld' = [ld EXCEPT !.data = LeadsResponse(r, ldReqs[r], totalPages),
                        !.loading = FALSE]
    /\ ldReqs' = Settle(ldReqs, r, "ok")
    /\ UNCHANGED <<route, ldTimer, anVars, bsVars, bpVars, vsVars, dbVars,
                   chartVars>>

fetchLeadsRejectsAndRetries(r) ==
    /\ route = "leads"
    /\ r \in Pending(ldReqs)
    /\ Len(ldReqs) < MaxLeadsRequests
    /\ ld' = [ld EXCEPT !.error = r]
    /\ ldReqs' = Append(Settle(ldReqs, r, "failed"), NewLeadsRequest(ld))
    /\ UNCHANGED <<route, ldTimer, anVars, bsVars, bpVars, vsVars, dbVars,
                   chartVars>>

\* apiClient.leads.getAll rejects: setError, and finally setLoading(false).
fetchLeadsRejects(r) ==
    /\ route = "leads"
    /\ r \in Pending(ldReqs)
    /\ ld' = [ld EXCEPT !.error = r, !.loading = FALSE]
    /\ ldReqs' = Settle(ldReqs, r, "failed")
    /\ UNCHANGED <<route, ldTimer, anVars, bsVars, bpVars, vsVars, dbVars,
                   chartVars>>

(* VisitsContent *)

\* handleStatusChange of VisitsContent: setStatus(value), and the effect's
\* fetchVisits() up to its await.
VisitsHandleStatusChange(value) ==
    /\ route = "visits"
    /\ "status" \in VisitsView(vs).controls
    /\ value # vs.status
    /\ Len(vsReqs) < MaxRequests
    /\ vs' = fetchVisitsStart([vs EXCEPT !.status = value])
    /\ vsReqs' = Append(vsReqs, NewVisitsRequest([vs EXCEPT !.status = value]))
    /\ UNCHANGED <<route, anVars, bsVars, bpVars, ldVars, dbVars, chartVars>>

\* "Tentar novamente": onClick={fetchVisits}.
VisitsRetry ==
    /\ route = "visits"
    /\ "retry" \in VisitsView(vs).controls
    /\ Len(vsReqs) < MaxRequests
    /\ vs' = fetchVisitsStart(vs)
    /\ vsReqs' = Append(vsReqs, NewVisitsRequest(vs))
    /\ UNCHANGED <<route, anVars, bsVars, bpVars, ldVars, dbVars, chartVars>>

\* apiClient.visits.getAll resolves: setData, and finally setLoading(false).
fetchVisitsResolves(r, rows) ==
    /\ route = "visits"
    /\ r \in Pending(vsReqs)
    /\ vs' = [vs EXCEPT !.data = [req |-> r, rows |-> rows],
                        !.loading = FALSE]
    /\ vsReqs' = Settle(vsReqs, r, "ok")
    /\ UNCHANGED <<route, anVars, bsVars, bpVars, ldVars, dbVars, chartVars>>

\* apiClient.visits.getAll rejects: setError, and finally
\* setLoading(false).
fetchVisitsRejects(r) ==
    /\ route = "visits"
    /\ r \in Pending(vsReqs)
    /\ vs' = [vs EXCEPT !.error = r, !.loading = FALSE]
    /\ vsReqs' = Settle(vsReqs, r, "failed")
    /\ UNCHANGED <<route, anVars, bsVars, bpVars, ldVars, dbVars, chartVars>>

(* DashboardContent *)

\* fetch resolves with response.ok: setMetrics, and finally
\* setLoading(false).
fetchMetricsResolves(r, snapshot) ==
    /\ route = "dashboard"
    /\ r \in Pending(dbReqs)
    /\ db' = [db EXCEPT !.metrics = MetricsAggregator(r, snapshot),
                        !.loading = FALSE]
    /\ dbReqs' = Settle(dbReqs, r, "ok")
    /\ UNCHANGED <<route, anVars, bsVars, bpVars, ldVars, vsVars, chartVars>>

\* fetch rejects, or resolves with !response.ok and the throw: setError,
\* and finally setLoading(false).
fetchMetricsRejects(r) ==
    /\ route = "dashboard"
    /\ r \in Pending(dbReqs)
    /\ db' = [db EXCEPT !.error = r, !.loading = FALSE]
    /\ dbReqs' = Settle(dbReqs, r, "failed")
    /\ UNCHANGED <<route, anVars, bsVars, bpVars, ldVars, vsVars, chartVars>>

Next ==
    \/ \E p \in Periods : handlePeriodChange(p)
    \/ \E r \in 1..MaxRequests, f \in AnalyticsFetches :
        AnalyticsFetchResolves(r, f)
    \/ \E r \in 1..MaxRequests, f \in AnalyticsFetches :
        AnalyticsFetchRejects(r, f)
    \/ \E p \in Periods : BrokerStatsSetPeriod(p)
    \/ \E r \in 1..MaxRequests, rows \in BOOLEAN : loadRankingResolves(r, rows)
    \/ \E r \in 1..MaxRequests : loadRankingRejects(r)
    \/ \E r \in 1..MaxRequests, rows \in BOOLEAN : loadBrokersResolves(r, rows)
    \/ \E r \in 1..MaxRequests : loadBrokersRejects(r)
    \/ handleAdd
    \/ handleEdit
    \/ \E confirmed \in BOOLEAN : handleDelete(confirmed)
    \/ \E w \in 1..MaxWrites : deleteResolves(w)
    \/ \E w \in 1..MaxWrites : deleteRejects(w)
    \/ \E field \in {"name", "phone"}, value \in FieldValues :
        FormChange(field, value)
    \/ handleSubmit
    \/ \E w \in 1..MaxWrites : saveResolves(w)
    \/ \E w \in 1..MaxWrites : saveRejects(w)
    \/ DialogClose
    \/ \E value \in SearchTerms : LeadsTypeSearch(value)
    \/ LeadsDebounceFires
    \/ \E value \in LeadStatuses : LeadsHandleStatusChange(value)
    \/ LeadsPrevious
    \/ LeadsNext
    \/ LeadsRetry
    \/ \E r \in 1..MaxLeadsRequests, totalPages \in 0..MaxTotalPages :
        fetchLeadsResolves(r, totalPages)
    \/ \E r \in 1..MaxLeadsRequests : fetchLeadsRejects(r)
    \/ \E value \in VisitStatuses : VisitsHandleStatusChange(value)
    \/ VisitsRetry
    \/ \E r \in 1..MaxRequests, rows \in BOOLEAN : fetchVisitsResolves(r, rows)
    \/ \E r \in 1..MaxRequests : fetchVisitsRejects(r)
    \/ \E r \in 1..MaxRequests, snapshot \in Snapshots :
        fetchMetricsResolves(r, snapshot)
    \/ \E r \in 1..MaxRequests : fetchMetricsRejects(r)

Spec == Init /\ [][Next]_vars

-----------------------------------------------------------------------------
(* SpecFunnel                                                              *)

InitFunnel ==
    /\ \/ funnelData = FunnelCalculator(ScenarioFunnel)
       \/ \E n \in 0..MaxStages : funnelData \in FunnelInputs(n)
    /\ funnelLoading \in BOOLEAN
    /\ funnelView = NotRendered
    /\ NbIdle
    /\ TsIdle
    /\ UiIdle
    /\ AgendaIdle
    /\ PieIdle
    /\ LabelIdle

\* React renders the chart from its props.
RenderFunnel ==
    /\ funnelView = NotRendered
    /\ funnelView' = FunnelChart(funnelData, funnelLoading)
    /\ UNCHANGED <<funnelData, funnelLoading>>
    /\ UNCHANGED <<uiVars, nbVars, tsVars, agendaVars, pieVars, labelVars>>

\* The parent finishes loading and passes isLoading = false.
FunnelLoaded ==
    /\ funnelLoading
    /\ funnelView # NotRendered
    /\ funnelLoading' = FALSE
    /\ funnelView' = FunnelChart(funnelData, FALSE)
    /\ UNCHANGED funnelData
    /\ UNCHANGED <<uiVars, nbVars, tsVars, agendaVars, pieVars, labelVars>>

NextFunnel == RenderFunnel \/ FunnelLoaded

SpecFunnel == InitFunnel /\ [][NextFunnel]_vars

-----------------------------------------------------------------------------
(* SpecNeighborhood                                                        *)

InitNeighborhood ==
    /\ nbData \in NbInputs
    /\ nbLoading \in BOOLEAN
    /\ nbView = NbNotRendered
    /\ FunnelIdle
    /\ TsIdle
    /\ UiIdle
    /\ AgendaIdle
    /\ PieIdle
    /\ LabelIdle

RenderNeighborhood ==
    /\ nbView = NbNotRendered
    /\ nbView' = NeighborhoodBarChart(nbData, nbLoading)
    /\ UNCHANGED <<nbData, nbLoading>>
    /\ UNCHANGED <<uiVars, funnelVars, tsVars, agendaVars, pieVars, labelVars>>

NeighborhoodLoaded ==
    /\ nbLoading
    /\ nbView # NbNotRendered
    /\ nbLoading' = FALSE
    /\ nbView' = NeighborhoodBarChart(nbData, FALSE)
    /\ UNCHANGED nbData
    /\ UNCHANGED <<uiVars, funnelVars, tsVars, agendaVars, pieVars, labelVars>>

NextNeighborhood == RenderNeighborhood \/ NeighborhoodLoaded

SpecNeighborhood == InitNeighborhood /\ [][NextNeighborhood]_vars

-----------------------------------------------------------------------------
(* SpecVisits: one status filter of VisitsContent, the backend unchanged   *)

\* VisitsContent mounts: data null, loading true, view 'list', and the
\* effect has called fetchVisits.
InitVisits ==
    /\ vdRows \in UNION {VisitRows(n) : n \in 0..MaxVisits}
    /\ vdData = NullVisitsData
    /\ vdLoading = TRUE
    /\ vdTab = "list"
    /\ vdRenders = 0
    /\ vdShown = VisitsRender(NullVisitsData, TRUE).shown
    /\ FunnelIdle
    /\ NbIdle
    /\ TsIdle
    /\ UiIdle
    /\ PieIdle
    /\ LabelIdle

\* The fetch in flight resolves: setData(response), setLoading(false), and
\* the render that follows.
VdFetchResolves ==
    /\ vdLoading
    /\ vdLoading' = FALSE
    /\ vdData' = VisitsRender(VisitsData(vdRows), FALSE).data
    /\ vdShown' = VisitsRender(VisitsData(vdRows), FALSE).shown
    /\ vdRenders' = 1
    /\ UNCHANGED <<vdRows, vdTab>>
    /\ UNCHANGED <<uiVars, funnelVars, nbVars, tsVars, pieVars, labelVars>>

\* fetchVisits runs again for the same status, up to its await:
\* setLoading(true), and the render that follows.
VdFetchAgain ==
    /\ ~vdLoading
    /\ vdLoading' = TRUE
    /\ vdData' = VisitsRender(vdData, TRUE).data
    /\ vdShown' = VisitsRender(vdData, TRUE).shown
    /\ UNCHANGED <<vdRows, vdTab, vdRenders>>
    /\ UNCHANGED <<uiVars, funnelVars, nbVars, tsVars, pieVars, labelVars>>

\* A tab trigger: setView, and the render that follows.
VdSetView(v) ==
    /\ v # vdTab
    /\ vdRenders < MaxRenders \/ vdLoading
    /\ vdTab' = v
    /\ vdData' = VisitsRender(vdData, vdLoading).data
    /\ vdShown' = VisitsRender(vdData, vdLoading).shown
    /\ vdRenders' = IF vdLoading THEN vdRenders ELSE vdRenders + 1
    /\ UNCHANGED <<vdRows, vdLoading>>
    /\ UNCHANGED <<uiVars, funnelVars, nbVars, tsVars, pieVars, labelVars>>

NextVisits ==
    \/ VdFetchResolves
    \/ VdFetchAgain
    \/ \E v \in {"list", "calendar"} : VdSetView(v)

SpecVisits == InitVisits /\ [][NextVisits]_vars

-----------------------------------------------------------------------------
(* SpecSources                                                             *)

InitSources ==
    /\ \/ srcData = ScenarioSources
       \/ \E n \in 0..MaxSources : srcData \in SourceInputs(n)
    /\ srcLoading \in BOOLEAN
    /\ srcView = PieNotRendered
    /\ FunnelIdle
    /\ NbIdle
    /\ TsIdle
    /\ UiIdle
    /\ AgendaIdle
    /\ LabelIdle

\* React renders the chart from its props.
RenderSources ==
    /\ srcView = PieNotRendered
    /\ srcView' = SourcePieChart(srcData, srcLoading)
    /\ UNCHANGED <<srcData, srcLoading>>
    /\ UNCHANGED <<uiVars, funnelVars, nbVars, tsVars, agendaVars, labelVars>>

\* The parent finishes loading and passes isLoading = false.
SourcesLoaded ==
    /\ srcLoading
    /\ srcView # PieNotRendered
    /\ srcLoading' = FALSE
    /\ srcView' = SourcePieChart(srcData, FALSE)
    /\ UNCHANGED srcData
    /\ UNCHANGED <<uiVars, funnelVars, nbVars, tsVars, agendaVars, labelVars>>

NextSources == RenderSources \/ SourcesLoaded

SpecSources == InitSources /\ [][NextSources]_vars

-----------------------------------------------------------------------------
(* SpecLabels                                                              *)

InitLabels ==
    /\ lblKind \in LabelKinds
    /\ lblKey \in LabelKeys
    /\ lblShown = LabelNotRendered
    /\ FunnelIdle
    /\ NbIdle
    /\ TsIdle
    /\ UiIdle
    /\ AgendaIdle
    /\ PieIdle

\* The component renders the row, bar or slice that carries the key.
RenderLabel ==
    /\ ~lblShown.rendered
    /\ lblShown' = [rendered |-> TRUE, text |-> DisplayedLabel(lblKind, lblKey)]
    /\ UNCHANGED <<lblKind, lblKey>>
    /\ UNCHANGED <<uiVars, funnelVars, nbVars, tsVars, agendaVars, pieVars>>

NextLabels == RenderLabel

SpecLabels == InitLabels /\ [][NextLabels]_vars

-----------------------------------------------------------------------------
(* SpecTimeSeries                                                          *)

\* AnalyticsContent mounts: period '30d', isLoading true, and the effect has
\* issued the first fetch.
InitTimeSeries ==
    /\ tsRaw \in RawInputs
    /\ tsPeriod = "30d"
    /\ tsInFlight = <<"30d">>
    /\ tsData = TsNoData
    /\ tsLoading = TRUE
    /\ tsError = TsNoError
    /\ tsView = TimeSeriesPanel(TsNoError, <<>>, TRUE)
    /\ FunnelIdle
    /\ NbIdle
    /\ UiIdle
    /\ AgendaIdle
    /\ PieIdle
    /\ LabelIdle

\* A period tab: handlePeriodChange, setPeriod, and the effect's
\* fetchAnalyticsData(period) up to its await: setIsLoading(true),
\* setError(null).
TsSelectPeriod(p) ==
    /\ tsView.branch # "unmounted"
    /\ p # tsPeriod
    /\ Len(tsInFlight) < MaxInFlight
    /\ tsPeriod' = p
    /\ tsInFlight' = Append(tsInFlight, p)
    /\ tsLoading' = TRUE
    /\ tsError' = TsNoError
    /\ tsView' = TimeSeriesPanel(TsNoError, tsData.timeSeries, TRUE)
    /\ UNCHANGED <<tsRaw, tsData>>
    /\ UNCHANGED <<uiVars, funnelVars, nbVars, agendaVars, pieVars, labelVars>>

\* The i-th fetch in flight resolves: setData, then setIsLoading(false).
TsFetchSucceeds(i) ==
    /\ i \in 1..Len(tsInFlight)
    /\ LET p == tsInFlight[i]
           response == BackendTimeSeries(tsRaw, p)
       IN  /\ tsData' = TsSetData(p, response)
           /\ tsView' = TimeSeriesPanel(tsError, response, FALSE)
    /\ tsInFlight' = [k \in 1..(Len(tsInFlight) - 1) |->
                        IF k < i THEN tsInFlight[k] ELSE tsInFlight[k + 1]]
    /\ tsLoading' = FALSE
    /\ UNCHANGED <<tsRaw, tsPeriod, tsError>>
    /\ UNCHANGED <<uiVars, funnelVars, nbVars, agendaVars, pieVars, labelVars>>

\* The i-th fetch in flight rejects: setError, then setIsLoading(false).
TsFetchFails(i) ==
    /\ i \in 1..Len(tsInFlight)
    /\ tsError' = TsErrorMessage
    /\ tsView' = TimeSeriesPanel(TsErrorMessage, tsData.timeSeries, FALSE)
    /\ tsInFlight' = [k \in 1..(Len(tsInFlight) - 1) |->
                        IF k < i THEN tsInFlight[k] ELSE tsInFlight[k + 1]]
    /\ tsLoading' = FALSE
    /\ UNCHANGED <<tsRaw, tsPeriod, tsData>>
    /\ UNCHANGED <<uiVars, funnelVars, nbVars, agendaVars, pieVars, labelVars>>

NextTimeSeries ==
    \/ \E p \in Periods : TsSelectPeriod(p)
    \/ \E i \in 1..MaxInFlight : TsFetchSucceeds(i)
    \/ \E i \in 1..MaxInFlight : TsFetchFails(i)

SpecTimeSeries == InitTimeSeries /\ [][NextTimeSeries]_vars

-----------------------------------------------------------------------------
(* Properties                                                              *)

\* The numbers of tenths t with |t / 10 - part / whole * 100| <= 0.05: what
\* part / whole * 100 may read when shown to one decimal place (whole > 0).
NearestTenths(part, whole) ==
    LET below == (1000 * part) \div whole
    IN  { t \in {below, below + 1} :
            /\ 2 * (1000 * part - t * whole) <= whole
            /\ 2 * (t * whole - 1000 * part) <= whole }

ShowsPercentOf(text, part, whole) ==
    \E t \in NearestTenths(part, whole) : text = TenthsText(t) \o "%"

Range(seq) == {seq[i] : i \in 1..Len(seq)}

\* C5: in FunnelChart every stage after the first whose preceding stage
\* counts 0 shows the conversion rate 0%, in the list of rates and in the
\* bar's tooltip, whatever the stage itself counts.
C5_ZeroPreviousStageGivesZeroPercent ==
    funnelView.branch = "chart" =>
        \A k \in 1..(Len(funnelData) - 1) :
            funnelData[k].count = 0 =>
                /\ k \in DOMAIN funnelView.rows
                /\ funnelView.rows[k].rate = "0%"
                /\ funnelView.tooltips[k + 1] = "0%"

C5_Witness ==
    /\ funnelView.branch = "chart"
    /\ \E k \in 1..(Len(funnelData) - 1) :
        /\ funnelData[k].count = 0
        /\ funnelData[k + 1].count > 0
        /\ funnelView.rows[k].rate = "0%"

\* C6: in FunnelChart every stage after the first whose preceding stage
\* counts more than 0 shows count / previous count * 100 to one decimal
\* place; the first stage shows no rate; the list holds exactly one rate per
\* consecutive pair of stages; the counts 100, 60, 30, 10, 2 show 60.0%,
\* 50.0%, 33.3% and 20.0%.
C6_ConversionRateOfConsecutiveStages ==
    funnelView.branch = "chart" =>
        /\ Len(funnelView.rows) = Len(funnelData) - 1
        /\ funnelView.tooltips[1] = NoRate
        /\ \A k \in 1..(Len(funnelData) - 1) :
            /\ funnelView.rows[k].from = funnelView.labels[k]
            /\ funnelView.rows[k].to = funnelView.labels[k + 1]
            /\ funnelData[k].count > 0 =>
                /\ ShowsPercentOf(funnelView.rows[k].rate,
                                  funnelData[k + 1].count, funnelData[k].count)
                /\ funnelView.tooltips[k + 1] = funnelView.rows[k].rate
        /\ funnelData = FunnelCalculator(ScenarioFunnel) =>
            [k \in 1..4 |-> funnelView.rows[k].rate]
                = <<"60.0%", "50.0%", "33.3%", "20.0%">>

C6_Witness ==
    /\ funnelView.branch = "chart"
    /\ funnelData = FunnelCalculator(ScenarioFunnel)
    /\ funnelView.rows[3].rate = "33.3%"

\* C7: the ranking NeighborhoodBarChart draws never holds more than 10
\* entries, holds min(10, n) of the n input entries, each once, and leaves
\* out no entry that counts strictly more than one it keeps.
C7_TopTenOfTheInput ==
    nbView.branch = "chart" =>
        LET bars == nbView.bars
            n == Len(nbData)
        IN  /\ Len(bars) <= 10
            /\ Len(bars) = IF n < 10 THEN n ELSE 10
            /\ Range(bars) \subseteq Range(nbData)
            /\ Cardinality(Range(bars)) = Len(bars)
            /\ \A out \in Range(nbData) \ Range(bars) :
                \A kept \in Range(bars) : out.count <= kept.count

C7_Witness ==
    /\ nbView.branch = "chart"
    /\ Len(nbData) > 10
    /\ Len(nbView.bars) = 10
    /\ \E out \in Range(nbData) \ Range(nbView.bars) :
        \E kept \in Range(nbView.bars) : out.count < kept.count
    /\ \E i \in 11..Len(nbData) : nbData[i] \in Range(nbView.bars)

\* C8 as stated: the sequence top10Data handed to the chart is sorted
\* descending by count.
C8_HandedDescending ==
    nbView.branch = "chart" =>
        \A i, j \in 1..Len(nbView.bars) :
            i < j => nbView.bars[i].count >= nbView.bars[j].count

\* C8 as amended: the sequence top10Data handed to the chart is the
\* descending ranking reversed, so it is sorted ascending by count and the
\* entry that counts most is the last one (the "Bairro lider").
C8_HandedAscending ==
    nbView.branch = "chart" =>
        /\ \A i, j \in 1..Len(nbView.bars) :
            i < j => nbView.bars[i].count <= nbView.bars[j].count
        /\ \A e \in Range(nbData) : e.count <= nbView.leader

C8_Witness ==
    /\ nbView.branch = "chart"
    /\ Len(nbData) > 10
    /\ \E i, j \in 1..Len(nbView.bars) :
        i < j /\ nbView.bars[i].count < nbView.bars[j].count

\* The tenths a displayed share reads, given the count and total it shows.
ShownTenths(text, part, whole) ==
    CHOOSE t \in NearestTenths(part, whole) : text = TenthsText(t) \o "%"

RECURSIVE SumShownTenths(_, _, _)
SumShownTenths(shares, bars, whole) ==
    IF shares = <<>> THEN 0
    ELSE ShownTenths(shares[1], bars[1].count, whole)
         + SumShownTenths(Tail(shares), Tail(bars), whole)

\* C9: each displayed entry's "Do Top 10" share is its count divided by the
\* sum of the counts of the displayed entries, not of all input entries; the
\* displayed shares add up to 100% within their rounding when that sum is
\* above 0, and every share is 0.0% when it is 0.
C9_ShareOfTheDisplayedTotal ==
    nbView.branch = "chart" =>
        LET bars == nbView.bars
            shown == SumCounts(bars)
        IN  /\ Len(nbView.shares) = Len(bars)
            /\ shown > 0 =>
                /\ \A i \in 1..Len(bars) :
                    ShowsPercentOf(nbView.shares[i], bars[i].count, shown)
                /\ 2 * (SumShownTenths(nbView.shares, bars, shown) - 1000)
                        <= Len(bars)
                /\ 2 * (1000 - SumShownTenths(nbView.shares, bars, shown))
                        <= Len(bars)
            /\ shown = 0 =>
                \A i \in 1..Len(bars) : nbView.shares[i] = "0.0%"

C9_Witness ==
    /\ nbView.branch = "chart"
    /\ Len(nbData) > 10
    /\ SumCounts(nbView.bars) > 0
    /\ SumCounts(nbData) > SumCounts(nbView.bars)
    /\ SumShownTenths(nbView.shares, nbView.bars, SumCounts(nbView.bars)) # 1000

\* The series is one point per calendar day of p's window, ascending, with
\* the raw counts on the days that have a row and zeros on the others.
OnePointPerDay(points, p) ==
    LET n == PeriodDays(p)
    IN  /\ Len(points) = n
        /\ \A i \in 1..Len(points) :
            /\ points[i].date = i - n
            /\ IF points[i].date \in DOMAIN tsRaw
               THEN /\ points[i].leads = tsRaw[points[i].date].leads
                    /\ points[i].visits = tsRaw[points[i].date].visits
               ELSE /\ points[i].leads = 0
                    /\ points[i].visits = 0

\* A fetch has succeeded and the chart shows its outcome.
TsShown == tsData.period # "none" /\ ~tsLoading /\ tsError = TsNoError

AllSettled(reqs) == Pending(reqs) = {}

AllFulfilled(reqs) == \A r \in 1..Len(reqs) : reqs[r].state = "ok"

LatestFailed(reqs) ==
    /\ reqs # <<>>
    /\ AllSettled(reqs)
    /\ reqs[Len(reqs)].state = "failed"

\* C1: in AnalyticsContent, BrokerStats and LeadsContent, once every call
\* the view has issued has been answered, the data the view holds is the
\* response to the call issued last, whatever order the responses came in.
C1_NewestResponseIsKept ==
    /\ (Len(anReqs) > 1 /\ AllFulfilled(anReqs)) => an.data = Len(anReqs)
    /\ (Len(bsReqs) > 1 /\ AllFulfilled(bsReqs))
        => bs.ranking.req = Len(bsReqs)
    /\ (Len(ldReqs) > 1 /\ AllFulfilled(ldReqs)) => ld.data.req = Len(ldReqs)

\* C2: in each of the six data-fetching components, when the last call has
\* failed and nothing is in flight, the component renders its error
\* message, not an empty list or the previous data.
C2_FailureIsRendered ==
    /\ LatestFailed(dbReqs) => DashboardView(db).branch = "error"
    /\ LatestFailed(anReqs) => AnalyticsView(an).branch = "error"
    /\ LatestFailed(ldReqs) => LeadsView(ld).branch = "error"
    /\ LatestFailed(vsReqs) => VisitsView(vs).branch = "error"
    /\ LatestFailed(bsReqs) => BrokerStatsView(bs).branch = "error"
    /\ LatestFailed(bpReqs) => BrokersPageView(bp).branch = "error"

\* C3: when one of the four analytics fetches of the last call has failed
\* and the other three have succeeded, the other three panels display
\* their data.
C3_PanelsFailIndependently ==
    \A f \in AnalyticsFetches :
        (/\ anReqs # <<>>
         /\ AllSettled(anReqs)
         /\ anReqs[Len(anReqs)].fetches[f] = "failed"
         /\ \A g \in AnalyticsFetches \ {f} :
                anReqs[Len(anReqs)].fetches[g] = "ok")
        => \A g \in AnalyticsFetches \ {f} :
                AnalyticsView(an).panels[g] = "data"

\* C4: whenever AnalyticsContent, DashboardContent, LeadsContent or
\* VisitsContent displays a fetch error, it offers a retry action.
C4_ErrorOffersRetry ==
    /\ AnalyticsView(an).branch = "error"
        => "retry" \in AnalyticsView(an).controls
    /\ DashboardView(db).branch = "error"
        => "retry" \in DashboardView(db).controls
    /\ LeadsView(ld).branch = "error" => "retry" \in LeadsView(ld).controls
    /\ VisitsView(vs).branch = "error" => "retry" \in VisitsView(vs).controls

C12_PanelShowsItsDataOnceResolved ==
    \A f \in AnalyticsFetches :
        (/\ anReqs # <<>>
         /\ anReqs[Len(anReqs)].fetches[f] = "ok"
         /\ \A g \in AnalyticsFetches :
                anReqs[Len(anReqs)].fetches[g] \in {"ok", "pending"}
         /\ an.error = Null)
        => AnalyticsView(an).panels[f] = "data"

\* C13: no component issues a request on its own: a step in which a
\* component issues a new request is a change of its period, page, search
\* or status, or a click on the retry button of its error display; the
\* dashboard issues none after mounting, and the brokers list reloads only
\* in the step in which a create, update or delete has succeeded.  In
\* particular the step in which a call fails issues none.
C13_RequestsOnlyOnUserAction ==
    [][/\ Len(anReqs') > Len(anReqs) => an'.period # an.period
       /\ Len(bsReqs') > Len(bsReqs) => bs'.period # bs.period
       /\ Len(ldReqs') > Len(ldReqs) =>
            \/ LeadsParams(ld') # LeadsParams(ld)
            \/ "retry" \in LeadsView(ld).controls
       /\ Len(vsReqs') > Len(vsReqs) =>
            \/ vs'.status # vs.status
            \/ "retry" \in VisitsView(vs).controls
       /\ Len(dbReqs') = Len(dbReqs)
       /\ Len(bpReqs') > Len(bpReqs) =>
            \E w \in 1..Len(writes) :
                writes[w].state = "pending" /\ writes'[w].state = "ok"]_vars

\* The only call of LeadsContent has failed, the debounce timer armed at
\* mount has fired, and no second call was made.
C13_Witness ==
    /\ route = "leads"
    /\ Len(ldReqs) = 1
    /\ LatestFailed(ldReqs)
    /\ ~ldTimer.armed
    /\ LeadsView(ld).branch = "error"

\* The place of an entry of the input in the sequence handed to the chart.
BarOf(entry) == CHOOSE p \in 1..Len(nbView.bars) : nbView.bars[p] = entry

\* Pairs of places of the input whose entries count the same.
TiedPairs ==
    {pr \in (1..Len(nbData)) \X (1..Len(nbData)) :
        pr[1] < pr[2] /\ nbData[pr[1]].count = nbData[pr[2]].count}

\* Of two entries that count the same, the later one is kept by the cut
\* only if the earlier one is.
EarlierOfATieIsKept ==
    \A pr \in TiedPairs :
        nbData[pr[2]] \in Range(nbView.bars)
            => nbData[pr[1]] \in Range(nbView.bars)

\* C14 as stated: among entries that count the same the earlier ones are
\* the ones the top-10 cut keeps, and in the sequence top10Data they appear
\* in the same relative order as in the input.
C14_TiesInInputOrder ==
    nbView.branch = "chart" =>
        /\ EarlierOfATieIsKept
        /\ \A pr \in TiedPairs :
            nbData[pr[2]] \in Range(nbView.bars)
                => BarOf(nbData[pr[1]]) < BarOf(nbData[pr[2]])

\* C14 as amended: among entries that count the same the earlier ones are
\* the ones the top-10 cut keeps; top10Data is the ranking reversed, so in
\* it tied entries appear in the opposite relative order, which is the
\* input order when the ranking is read from the highest count down.
C14_TiesInInputOrderFromTheLeaderDown ==
    nbView.branch = "chart" =>
        /\ EarlierOfATieIsKept
        /\ \A pr \in TiedPairs :
            nbData[pr[2]] \in Range(nbView.bars)
                => BarOf(nbData[pr[1]]) > BarOf(nbData[pr[2]])

C14_Witness ==
    /\ nbView.branch = "chart"
    /\ Len(nbData) > 10
    /\ \E pr \in TiedPairs :
        /\ nbData[pr[1]] \in Range(nbView.bars)
        /\ nbData[pr[2]] \notin Range(nbView.bars)
    /\ \E pr \in TiedPairs :
        /\ nbData[pr[2]] \in Range(nbView.bars)
        /\ BarOf(nbData[pr[1]]) > BarOf(nbData[pr[2]])

\* C15: the percentage of the total FunnelChart shows for a stage is the
\* stage's count over the first stage's count * 100, to one decimal place;
\* for the counts 100, 60, 30, 10, 2 it shows 100, 60, 30, 10 and 2 percent.
C15_PercentageOfTheFirstStage ==
    funnelView.branch = "chart" =>
        /\ funnelData[1].count > 0 =>
            \A i \in 1..Len(funnelData) :
                ShowsPercentOf(funnelView.shares[i], funnelData[i].count,
                               funnelData[1].count)
        /\ funnelData = FunnelCalculator(ScenarioFunnel) =>
            funnelView.shares = <<"100.0%", "60.0%", "30.0%", "10.0%", "2.0%">>

C15_Witness ==
    /\ funnelView.branch = "chart"
    /\ funnelData = FunnelCalculator(ScenarioFunnel)
    /\ funnelView.shares[2] = "60.0%"

\* The configured stages in their configured order, by label.
ConfiguredLabels ==
    <<"Leads Captados", "Contatados", "Qualificados", "Visita Agendada",
      "Visita Realizada">>

LabelRank(label) ==
    CHOOSE r \in 1..Len(ConfiguredLabels) : ConfiguredLabels[r] = label

\* C16: whatever order the stage records arrive in, FunnelChart displays
\* the configured stages in their configured order, and each conversion
\* rate is between a stage and a later stage of that order.
C16_StagesInConfiguredOrder ==
    funnelView.branch = "chart" =>
        /\ \A i, j \in 1..Len(funnelView.labels) :
            (/\ i < j
             /\ funnelView.labels[i] \in Range(ConfiguredLabels)
             /\ funnelView.labels[j] \in Range(ConfiguredLabels))
            => LabelRank(funnelView.labels[i]) < LabelRank(funnelView.labels[j])
        /\ \A k \in 1..Len(funnelView.rows) :
            (/\ funnelView.rows[k].from \in Range(ConfiguredLabels)
             /\ funnelView.rows[k].to \in Range(ConfiguredLabels))
            => LabelRank(funnelView.rows[k].from)
                    < LabelRank(funnelView.rows[k].to)

\* C17: when a time-series fetch is answered with no data at all, the
\* response is the empty sequence, isLoading returns to false, error is left
\* as it was, and with error null the chart shows its empty-data state.
C17_EmptyResponseIsNotAnError ==
    [][\A i \in 1..MaxInFlight :
        (/\ TsFetchSucceeds(i)
         /\ DOMAIN tsRaw \cap WindowDates(tsInFlight[i]) = {})
        => /\ tsData'.timeSeries = <<>>
           /\ tsLoading' = FALSE
           /\ tsError' = tsError
           /\ tsError = TsNoError => tsView'.branch = "empty"]_vars

C17_Witness ==
    /\ tsData.period = "7d"
    /\ tsData.timeSeries = <<>>
    /\ DOMAIN tsRaw # {}
    /\ tsInFlight = <<>>
    /\ ~tsLoading
    /\ tsError = TsNoError
    /\ tsView.branch = "empty"

\* C18: a submit of the broker form in create mode with an empty name or an
\* empty phone sends no request, sets the validation message, does not call
\* onSuccess (no reload of the list), leaves the dialog open and leaves the
\* loading flag false.
C18_EmptyRequiredFieldIsRejected ==
    [][(/\ handleSubmit
        /\ bp.selectedBroker = Null
        /\ form.formData.name = "" \/ form.formData.phone = "")
       => /\ writes' = writes
          /\ form'.error = ValidationMessage
          /\ bpReqs' = bpReqs
          /\ bp'.dialogOpen
          /\ ~form'.loading]_vars

C18_Witness ==
    /\ route = "brokers"
    /\ bp.dialogOpen
    /\ bp.selectedBroker = Null
    /\ form.formData = [name |-> "Ana", phone |-> ""]
    /\ form.error = ValidationMessage
    /\ ~form.loading
    /\ writes = <<>>

\* C19: a step that issues a write issues exactly one, through a control
\* the user operates (the form's submit button, or the delete button of a
\* row with the prompt confirmed), and is not a mount, a response, or a
\* change of period, filter or page; a declined delete prompt sends nothing
\* and leaves the list as it was.
C19_WritesOnlyOnExplicitAction ==
    [][/\ Len(writes') > Len(writes) =>
            /\ Len(writes') = Len(writes) + 1
            /\ SubSeq(writes', 1, Len(writes)) = writes
            /\ \/ /\ writes'[Len(writes')].kind \in {"create", "update"}
                  /\ bp.dialogOpen
                  /\ ~form.loading
               \/ /\ writes'[Len(writes')].kind = "delete"
                  /\ "delete" \in BrokersPageView(bp).controls
            /\ UNCHANGED <<bp, bpReqs, anVars, bsVars, ldVars, vsVars, dbVars>>
       /\ handleDelete(FALSE) =>
            UNCHANGED <<writes, bp, bpReqs>>]_vars

C19_Witness ==
    /\ route = "brokers"
    /\ Len(writes) = 2
    /\ writes[1].kind = "create"
    /\ writes[1].state = "failed"
    /\ writes[2].kind = "delete"
    /\ writes[2].state = "pending"

\* C20: with the backend unchanged, what the visits list and the calendar
\* hold is a function of the response alone: however often the array held
\* in state has been sorted in place by earlier renders, and after any
\* re-fetch of the same filter, the list is the response sorted by date and
\* time and the calendar is the response grouped by date.
C20_SameResponseSameView ==
    vdShown.branch = "visits" =>
        /\ vdShown.list = sortVisits(vdRows)
        /\ vdShown.groups = groupVisitsByDate(vdRows)
        /\ vdShown.dates = sortedDates(groupVisitsByDate(vdRows))

C20_Witness ==
    /\ vdShown.branch = "visits"
    /\ vdRenders >= 2
    /\ vdTab = "calendar"
    /\ vdData.visits # vdRows
    /\ \E i, j \in 1..Len(vdRows) :
          /\ i < j
          /\ vdRows[i].scheduled_date = vdRows[j].scheduled_date
          /\ vdRows[i].scheduled_time = vdRows[j].scheduled_time

\* C21: in SourcePieChart a slice whose count is under a twentieth of the
\* total carries no in-slice label, and every slice at or above a twentieth
\* carries its share of the total as a whole percentage (the nearest
\* integer); website 50, facebook 30, other 20 carry 50%, 30% and 20%.
C21_LabelOnlyFromFivePercent ==
    (srcView.branch = "chart" /\ SumValues(srcData) > 0) =>
        /\ \A i \in 1..Len(srcData) :
              LET value == srcData[i].count
                  sum == SumValues(srcData)
              IN  IF 20 * value < sum
                  THEN srcView.labels[i] = NoLabel
                  ELSE \E n \in 0..100 :
                          /\ 2 * (100 * value - n * sum) <= sum
                          /\ 2 * (n * sum - 100 * value) <= sum
                          /\ srcView.labels[i] = ToString(n) \o "%"
        /\ srcData = ScenarioSources =>
              srcView.labels = <<"50%", "30%", "20%">>

C21_Witness ==
    /\ srcView.branch = "chart"
    /\ Len(srcData) = 2
    /\ \E i, j \in 1..Len(srcData) :
          /\ srcData[i].count = 1
          /\ srcView.labels[i] = NoLabel
          /\ srcData[j].count = LargeSourceCount
          /\ srcView.labels[j] = "97%"

\* C22: every label lookup (funnel stage, lead source, lead status, visit
\* status) renders the raw key for a key outside its label map, so no label
\* is blank.
C22_UnknownKeyShowsRawKey ==
    (lblShown.rendered /\ lblKey \notin KnownKeys(lblKind)) =>
        /\ lblShown.text = lblKey
        /\ lblShown.text # Blank

\* C23: in AnalyticsContent and LeadsContent the loading flag is true
\* whenever a request of the component is in flight, and the component does
\* not show its loaded view while its latest request is pending.
C23_LoadingWhileInFlight ==
    /\ Pending(anReqs) # {} => an.isLoading
    /\ Pending(ldReqs) # {} => ld.loading
    /\ (anReqs # <<>> /\ anReqs[Len(anReqs)].state = "pending") =>
          \A f \in AnalyticsFetches :
              AnalyticsView(an).panels[f] \in {"loading", "unmounted"}
    /\ (ldReqs # <<>> /\ ldReqs[Len(ldReqs)].state = "pending") =>
          LeadsView(ld).branch \in {"loading", "error"}

\* C24: in AnalyticsContent, once every request has settled, error is set
\* if and only if the request issued last failed.
C24_ErrorIsThatOfTheLatestRequest ==
    (anReqs # <<>> /\ AllSettled(anReqs)) =>
        (an.error # Null <=> anReqs[Len(anReqs)].state = "failed")

\* C25: whenever the broker dialog is opened, its fields hold the values of
\* the broker it was opened for: the row's name and phone through Edit,
\* empty fields through Add, whatever was opened or typed before.
C25_FormReflectsTheBrokerOpened ==
    [][/\ handleEdit =>
            /\ form'.formData.name = ListedBroker.name
            /\ form'.formData.phone = ListedBroker.phone
       /\ handleAdd => form'.formData = EmptyForm]_vars

\* C26: in LeadsContent every request whose search term or status differs
\* from that of the request issued before it asks for page 1.
C26_NewFilterStartsAtPageOne ==
    \A r \in 2..Len(ldReqs) :
        (ldReqs[r].search # ldReqs[r - 1].search
         \/ ldReqs[r].status # ldReqs[r - 1].status)
        => ldReqs[r].page = 1

C26_Witness ==
    /\ Len(ldReqs) = 3
    /\ ldReqs[2].page = 2
    /\ ldReqs[3].status # ldReqs[2].status
    /\ ldReqs[3].page = 1

\* C28: in LeadsContent a change of the search input sends nothing and
\* leaves one pending timer, which carries the value typed last; the
\* debounced search changes only when that timer fires, to the value the
\* input holds, and with no timer left pending; a request carries the
\* debounced search, so a value typed over before the delay is never sent.
C28_OnlyTheLastTypedValueIsSent ==
    [][/\ ld'.search # ld.search =>
            /\ ld'.debouncedSearch = ld.debouncedSearch
            /\ ldReqs' = ldReqs
            /\ ldTimer' = [armed |-> TRUE, value |-> ld'.search]
       /\ ld'.debouncedSearch # ld.debouncedSearch =>
            /\ ld'.search = ld.search
            /\ ld'.debouncedSearch = ld.search
            /\ ~ldTimer'.armed
            /\ Len(ldReqs') = Len(ldReqs) + 1
       /\ Len(ldReqs') > Len(ldReqs) =>
            ldReqs'[Len(ldReqs')].search = ld'.debouncedSearch]_vars

C28_Witness ==
    /\ route = "leads"
    /\ Len(ldReqs) = 2
    /\ ldReqs[2].search = "ana"
    /\ ld.search = "ana"
    /\ ld.debouncedSearch = "ana"
    /\ ~ldTimer.armed

\* C29: in LeadsContent the page is at least 1 after every step, and a
\* click on Next leaves it no higher than the total_pages of the response
\* held.
C29_PageStaysInRange ==
    [][/\ ld'.page >= 1
       /\ LeadsNext => ld'.page <= ld.data.total_pages]_vars

C29_Witness ==
    /\ route = "leads"
    /\ ld.page = 2
    /\ ld.data.total_pages = 2
    /\ ldReqs[Len(ldReqs)].page = 2

\* C27: whenever TimeSeriesChart is mounted inside AnalyticsContent, the
\* period tab it shows as selected is the period AnalyticsContent holds,
\* which is the period of the time-series request issued last.
C27_SelectedTabIsThePeriodFetched ==
    AnalyticsView(an).branch = "charts" =>
        /\ an.chartPeriod = an.period
        /\ anReqs # <<>> => anReqs[Len(anReqs)].period = an.period

C27_Witness ==
    /\ route = "analytics"
    /\ AnalyticsView(an).branch = "charts"
    /\ Len(anReqs) = 2
    /\ anReqs[1].state = "failed" \/ anReqs[1].state = "ok"
    /\ anReqs[2].state = "ok"
    /\ an.chartPeriod = "7d"

RECURSIVE ConcatGroups(_, _)
ConcatGroups(dates, groups) ==
    IF dates = <<>> THEN <<>>
    ELSE groups[Head(dates)] \o ConcatGroups(Tail(dates), groups)

TimeRank(visit) ==
    CHOOSE k \in 1..Len(ScheduledTimes) :
        ScheduledTimes[k] = visit.scheduled_time

\* C30: in VisitsContent the calendar's groups partition the fetched
\* visits: every visit is in exactly one group, the group of its
\* scheduled_date; each group is in ascending scheduled_time; and the groups
\* taken in ascending date order, one after the other, are the list view's
\* sequence.
C30_CalendarPartitionsTheList ==
    vdShown.branch = "visits" =>
        /\ \A i \in 1..Len(vdRows) :
              /\ vdRows[i].scheduled_date \in DOMAIN vdShown.groups
              /\ Cardinality(
                    {<<date, k>> \in (DOMAIN vdShown.groups) \X (1..Len(vdRows)) :
                        /\ k <= Len(vdShown.groups[date])
                        /\ vdShown.groups[date][k] = vdRows[i]}) = 1
              /\ \E k \in 1..Len(vdShown.groups[vdRows[i].scheduled_date]) :
                    vdShown.groups[vdRows[i].scheduled_date][k] = vdRows[i]
        /\ \A date \in DOMAIN vdShown.groups :
              \A k \in 1..(Len(vdShown.groups[date]) - 1) :
                  TimeRank(vdShown.groups[date][k])
                      <= TimeRank(vdShown.groups[date][k + 1])
        /\ ConcatGroups(vdShown.dates, vdShown.groups) = vdShown.list

C30_Witness ==
    /\ vdShown.branch = "visits"
    /\ Len(vdRows) = 3
    /\ Len(vdShown.dates) = 2
    /\ \E i, j \in 1..3 :
          /\ i < j
          /\ vdRows[i].scheduled_date = vdRows[j].scheduled_date
          /\ TimeRank(vdRows[i]) > TimeRank(vdRows[j])
    /\ vdShown.list # vdRows

=============================================================================
